---- MODULE Spec2Model ----
(***************************************************************************)
(* A model of ai-job-assistant:                                            *)
(*   src/src/rag_pipeline.py       RAGPipeline (vector index)              *)
(*   src/src/generation_chains.py  JobApplicationGenerator                 *)
(*   src/src/prompt_templates.py   the prompt templates and get_prompt     *)
(*   src/src/utils.py              clean_text, chunk_text,                 *)
(*                                 create_document_chunks                  *)
(*                                                                         *)
(* The persistent Chroma store is shared by every RAGPipeline built over   *)
(* the default path and collection name; app.py builds one RAGPipeline per *)
(* Streamlit session (src/app.py:86-92), and Streamlit runs each session's *)
(* script in a thread of its own.                                          *)
(*                                                                         *)
(* Collaborators (Chroma, the OpenAI embedding model) are modelled by      *)
(* their outcomes.  The failures the code handles and the specification    *)
(* names are inputs of the actions: the embedding call raising or          *)
(* returning nothing, get_or_create_collection raising, delete_collection  *)
(* raising, query raising.  upsert and count fail only for causes their    *)
(* arguments and the collection handle determine (no collection, a deleted *)
(* collection, duplicate ids in one batch).                                *)
(***************************************************************************)
EXTENDS Integers, Sequences, FiniteSets, Bags, TLC

(***************************************************************************)
(* Bounds of the model.                                                    *)
(***************************************************************************)
\* The most chunks one document pass yields.
MaxChunks == 2
\* The largest n_results asked of a search (0 is asked too).
MaxN == 2

Filenames == {"cv.pdf", "notes.txt"}
\* Two processing passes of a document: its content and its timestamp differ.
Versions == {1, 2}
Queries == {"backend engineer", "team lead"}
\* The RAGPipeline instances (one per Streamlit session) over the one store.
Pipes == {"p1", "p2"}
\* The one caller of the single-caller model.
Caller == "p1"

\* Python's None: a pipeline whose collection was never set.
None == "None"
\* Identities of collections (Chroma gives each created collection a fresh
\* UUID).  One more than there are handles, so a fresh one always exists.
Uids == {"u0", "u1", "u2"}

(***************************************************************************)
(* Chunks, as create_document_chunks emits them (src/src/utils.py:129-136),*)
(* and one with empty text (pass 0): create_document_chunks emits none,    *)
(* add_documents takes and stores it like any other                        *)
(* (src/src/rag_pipeline.py:100-116).                                      *)
(***************************************************************************)
ChunkText(i, v) ==
    CASE v = 0 -> ""
      [] i = 0 /\ v = 1 -> "Built systems."
      [] i = 0 /\ v = 2 -> "Reduced latency by 40."
      [] v = 1 -> "Led a team of 5 engineers."
      [] OTHER -> "Shipped features."

DateProcessed(v) ==
    IF v = 1 THEN "2026-01-05T09:00:00" ELSE "2026-02-07T18:30:00"

FileType(f) == IF f = "cv.pdf" THEN "pdf" ELSE "txt"

Chunk(f, i, v) ==
    [text |-> ChunkText(i, v),
     metadata |-> [filename |-> f,
                   file_type |-> FileType(f),
                   date_processed |-> DateProcessed(v),
                   word_count |-> 10 * v,
                   chunk_index |-> i]]

\* The chunks of one pass over document f that yields k segments.
DocChunks(f, k, v) == [j \in 1..k |-> Chunk(f, j - 1, v)]

\* The passes the model indexes: every pass of the resume, one of the notes,
\* and the notes as one chunk of empty text.
ResumePasses == {DocChunks("cv.pdf", k, v) : k \in 1..MaxChunks, v \in Versions}
NotesPasses == {DocChunks("notes.txt", 1, 1), DocChunks("notes.txt", 1, 0)}
Passes == ResumePasses \cup NotesPasses

\* The lists handed to add_documents: nothing, one document, the resume and
\* the notes together, and one batch that repeats an id.
ChunkLists ==
    {<<>>} \cup Passes
        \cup {a \o b : a \in ResumePasses, b \in NotesPasses}
        \cup {DocChunks("cv.pdf", 1, 1) \o DocChunks("cv.pdf", 1, 2)}

(***************************************************************************)
(* The embedding collaborator: text-embedding-3-small, here one integer    *)
(* coordinate per text.                                                    *)
(***************************************************************************)
embed(text) ==
    CASE text = "Built systems." -> 1
      [] text = "Reduced latency by 40." -> 3
      [] text = "Led a team of 5 engineers." -> 6
      [] text = "Shipped features." -> 3
      [] text = "backend engineer" -> 2
      [] text = "team lead" -> 6
      [] OTHER -> 0

\* Chroma's default space: squared L2.
Distance(a, b) == (a - b) * (a - b)

Range(s) == {s[i] : i \in 1..Len(s)}

VARIABLES
    store,       \* the named collection in the persistent store
    collection,  \* collection[p]: self.collection of pipeline p
    latest,      \* history: per id, the chunk of its most recent upsert
    resetClean,  \* history: pipelines whose reset returned, no upsert since
    last,        \* history: the last operation, its inputs and what it returned
    inflight,    \* inflight[p]: the call pipeline p is in the middle of
    contended,   \* history: ids two overlapping add_documents calls wrote
    chunking,    \* the chunker at work on a document
    session      \* st.session_state of the caller's Streamlit session

vars ==
    <<store, collection, latest, resetClean, last, inflight, contended,
      chunking, session>>

(***************************************************************************)
(* The store.  store.exists: the collection named "job_assistant" exists;  *)
(* store.uid: its identity; store.docs: its passages, a bag of records     *)
(* [id, document, metadata, embedding].                                    *)
(***************************************************************************)
NoCollection == [exists |-> FALSE, uid |-> None, docs |-> EmptyBag]

\* A uid no handle holds and the store does not carry.
FreshUid ==
    CHOOSE u \in Uids : u # store.uid /\ \A p \in Pipes : collection[p] # u

\* self.collection refers to the collection the store holds now.
Live(h, st) == st.exists /\ h # None /\ h = st.uid

\* ids = [f"{filename}_{chunk_index}" ...]
ChunkId(chunk) ==
    chunk.metadata.filename \o "_" \o ToString(chunk.metadata.chunk_index)

HasDuplicates(s) == \E i, j \in 1..Len(s) : i < j /\ s[i] = s[j]

\* The bag of the passages of docs whose id is not in ids.
WithoutIds(docs, ids) ==
    LET keep == {r \in BagToSet(docs) : r.id \notin ids}
    IN  [r \in keep |-> docs[r]]

Passage(id, document, metadata, embedding) ==
    [id |-> id, document |-> document, metadata |-> metadata,
     embedding |-> embedding]

(***************************************************************************)
(* Chroma, as the pipeline calls it.                                       *)
(***************************************************************************)
\* get_or_create_collection as create: a new empty collection replaces the
\* one there is.
create_collection_anew(st, fresh, ok) ==
    IF ~ok THEN [exc |-> TRUE, store |-> st, handle |-> None]
    ELSE [exc |-> FALSE,
          store |-> [exists |-> TRUE, uid |-> fresh, docs |-> EmptyBag],
          handle |-> fresh]

\* client.get_or_create_collection(name): the existing collection, else a
\* new empty one under a fresh identity.  ok = FALSE: the call raises.
get_or_create_collection(st, fresh, ok) ==
    IF ~ok THEN [exc |-> TRUE, store |-> st, handle |-> None]
    ELSE IF st.exists THEN [exc |-> FALSE, store |-> st, handle |-> st.uid]
    ELSE [exc |-> FALSE,
          store |-> [exists |-> TRUE, uid |-> fresh, docs |-> EmptyBag],
          handle |-> fresh]

\* client.delete_collection(name).  exc: "" (deleted), "ValueError" (no such
\* collection), "Exception" (fault = TRUE: the store reports an error and
\* deletes nothing).
delete_collection(st, fault) ==
    IF fault THEN [exc |-> "Exception", store |-> st]
    ELSE IF ~st.exists THEN [exc |-> "ValueError", store |-> st]
    ELSE [exc |-> "", store |-> NoCollection]

\* upsert as a plain insert: passages already stored under the ids stay.
upsert_append(docs, ids, documents, embeddings, metadatas) ==
    docs (+) SetToBag({Passage(ids[i], documents[i], metadatas[i], embeddings[i])
                        : i \in 1..Len(ids)})

\* upsert as an update of the text alone: a passage already stored keeps
\* its metadata and its embedding.
upsert_merge(docs, ids, documents, embeddings, metadatas) ==
    LET Old(id) == CHOOSE r \in BagToSet(docs) : r.id = id
        New(i) ==
            IF \E r \in BagToSet(docs) : r.id = ids[i]
            THEN Passage(ids[i], documents[i], Old(ids[i]).metadata,
                         Old(ids[i]).embedding)
            ELSE Passage(ids[i], documents[i], metadatas[i], embeddings[i])
    IN  WithoutIds(docs, Range(ids)) (+) SetToBag({New(i) : i \in 1..Len(ids)})

\* collection.upsert(documents, embeddings, metadatas, ids) on a live
\* collection: every passage with one of the ids is replaced in full.
\* upsert as a replacement of the collection's content by the batch.
upsert_replace_all(docs, ids, documents, embeddings, metadatas) ==
    SetToBag({Passage(ids[i], documents[i], metadatas[i], embeddings[i])
                : i \in 1..Len(ids)})

upsert(docs, ids, documents, embeddings, metadatas) ==
    WithoutIds(docs, Range(ids))
        (+) SetToBag({Passage(ids[i], documents[i], metadatas[i], embeddings[i])
                        : i \in 1..Len(ids)})

\* What collection.upsert does through handle h: it raises on no collection
\* (h is None: AttributeError), on a deleted collection and on repeated ids.
collection_upsert(st, h, ids, documents, embeddings, metadatas) ==
    IF ~Live(h, st) \/ HasDuplicates(ids) \/ Len(embeddings) # Len(ids)
    THEN [exc |-> TRUE, store |-> st]
    ELSE [exc |-> FALSE,
          store |-> [st EXCEPT !.docs =
                        upsert(st.docs, ids, documents, embeddings, metadatas)]]

\* The answers collection.query may give for one query embedding: the
\* min(n, count) nearest passages, nearest first; passages at the same
\* distance come in any order.
QueryAnswers(docs, qe, n) ==
    LET P == BagToSet(docs)
        k == IF n < Cardinality(P) THEN n ELSE Cardinality(P)
        d(r) == Distance(r.embedding, qe)
    IN  {s \in [1..k -> P] :
            /\ \A i, j \in 1..k : i < j => s[i] # s[j] /\ d(s[i]) <= d(s[j])
            /\ \A r \in P : r \notin Range(s) => \A i \in 1..k : d(s[i]) <= d(r)}

\* collection.query(query_embeddings=[qe], n_results=n) through handle h:
\* it raises on no collection, a deleted collection, n <= 0 and a store
\* fault; else it returns one inner list per query embedding.
collection_query(st, h, qe, n, fault) ==
    IF ~Live(h, st) \/ n <= 0 \/ fault
    THEN {[exc |-> TRUE, ids |-> <<>>, documents |-> <<>>, metadatas |-> <<>>,
           distances |-> <<>>]}
    ELSE {[exc |-> FALSE,
           ids |-> <<[i \in 1..Len(s) |-> s[i].id]>>,
           documents |-> <<[i \in 1..Len(s) |-> s[i].document]>>,
           metadatas |-> <<[i \in 1..Len(s) |-> s[i].metadata]>>,
           distances |-> <<[i \in 1..Len(s) |-> Distance(s[i].embedding, qe)]>>]
            : s \in QueryAnswers(st.docs, qe, n)}

(***************************************************************************)
(* RAGPipeline (src/src/rag_pipeline.py).  Each operation is a function of *)
(* the store, the pipeline's handle and the collaborators' outcomes; exc   *)
(* says whether an exception leaves the method.                            *)
(***************************************************************************)
\* setup_vectorstore: self.collection = get_or_create_collection(...); a
\* failure is logged and self.collection keeps its value.
setup_vectorstore(st, h, fresh, ok) ==
    LET r == get_or_create_collection(st, fresh, ok)
    IN  IF r.exc THEN [exc |-> FALSE, store |-> st, collection |-> h]
        ELSE [exc |-> FALSE, store |-> r.store, collection |-> r.handle]

\* __init__: self.collection = None, then setup_vectorstore().
construct(st, fresh, ok) == setup_vectorstore(st, None, fresh, ok)

\* create_embeddings: [] for no texts, [] when embed_documents raises
\* (emb = "raise") or returns nothing (emb = "empty").
create_embeddings(texts, emb) ==
    IF texts = <<>> THEN <<>>
    ELSE IF emb = "ok" THEN [i \in 1..Len(texts) |-> embed(texts[i])]
    ELSE <<>>

\* add_documents embedding and writing chunk by chunk: when the embedding
\* call fails, the first chunk is already written.
add_documents_try_partial(st, h, chunks, emb) ==
    LET first == SubSeq(chunks, 1, 1)
        texts == [i \in 1..Len(chunks) |-> chunks[i].text]
        metadatas == [i \in 1..Len(chunks) |-> chunks[i].metadata]
        ids == [i \in 1..Len(chunks) |-> ChunkId(chunks[i])]
        embeddings == create_embeddings(texts, emb)
        w == IF embeddings = <<>>
             THEN collection_upsert(st, h, <<ChunkId(first[1])>>, <<first[1].text>>,
                                    <<embed(first[1].text)>>, <<first[1].metadata>>)
             ELSE collection_upsert(st, h, ids, texts, embeddings, metadatas)
    IN  [exc |-> w.exc, store |-> w.store, wrote |-> ~w.exc /\ embeddings # <<>>]

\* Lines 100-105 of add_documents: the lists of the batch and its embeddings.
add_documents_prepare(chunks, emb) ==
    LET texts == [i \in 1..Len(chunks) |-> chunks[i].text]
    IN  [texts |-> texts,
         metadatas |-> [i \in 1..Len(chunks) |-> chunks[i].metadata],
         ids |-> [i \in 1..Len(chunks) |-> ChunkId(chunks[i])],
         embeddings |-> create_embeddings(texts, emb)]

\* Lines 107-117 of add_documents: abort without embeddings, else upsert.
\* wrote: the upsert was carried out; exc: collection.upsert raised.
add_documents_write(st, h, b) ==
    IF b.embeddings = <<>>
    THEN [exc |-> FALSE, store |-> st, wrote |-> FALSE]
    ELSE LET w == collection_upsert(st, h, b.ids, b.texts, b.embeddings,
                                    b.metadatas)
         IN  [exc |-> w.exc, store |-> w.store, wrote |-> ~w.exc]

\* The try block of add_documents (lines 100-117).
add_documents_try(st, h, chunks, emb) ==
    add_documents_write(st, h, add_documents_prepare(chunks, emb))

\* add_documents: nothing to do for no chunks; an exception of the try
\* block is logged and not raised again.
add_documents(st, h, chunks, emb) ==
    IF chunks = <<>> THEN [exc |-> FALSE, store |-> st, wrote |-> FALSE]
    ELSE LET r == add_documents_try(st, h, chunks, emb)
         IN  IF r.exc THEN [exc |-> FALSE, store |-> r.store, wrote |-> FALSE]
             ELSE r

\* Python's truth value of a list or None: an empty list and None are
\* false.  (The values are compared as printed, a list and None being of
\* different kinds.)
Truthy(v) == ToString(v) \notin {ToString(<<>>), ToString(None)}

\* The formatting loop walking the answer from its end.
format_results_reversed(results) ==
    IF Truthy(results.ids)
    THEN LET k == Len(results.ids[1])
         IN  [i \in 1..k |->
                [id |-> results.ids[1][k + 1 - i],
                 text |-> results.documents[1][k + 1 - i],
                 metadata |-> results.metadatas[1][k + 1 - i],
                 distance |-> IF Truthy(results.distances)
                              THEN results.distances[1][k + 1 - i]
                              ELSE None]]
    ELSE <<>>

\* The loop of search_similar that formats a query answer; the distance of
\* a passage is None when the answer has no distances.
format_results(results) ==
    IF Truthy(results.ids)
    THEN [i \in 1..Len(results.ids[1]) |->
            [id |-> results.ids[1][i],
             text |-> results.documents[1][i],
             metadata |-> results.metadatas[1][i],
             distance |-> IF Truthy(results.distances)
                          THEN results.distances[1][i]
                          ELSE None]]
    ELSE <<>>

\* The try block of search_similar.  embq = "raise": embed_query raises;
\* results: what collection.query gave.
search_similar_try(embq, results) ==
    IF embq # "ok" \/ results.exc THEN [exc |-> TRUE, value |-> <<>>]
    ELSE [exc |-> FALSE, value |-> format_results(results)]

\* search_similar without its except clause.
search_similar_uncaught(embq, results) == search_similar_try(embq, results)

\* search_similar: an exception is logged and [] returned.
search_similar(embq, results) ==
    LET r == search_similar_try(embq, results)
    IN  IF r.exc THEN [exc |-> FALSE, value |-> <<>>] ELSE r

\* reset_vectorstore letting the ValueError of delete_collection out.
reset_vectorstore_raising(st, h, fresh, fault, ok) ==
    LET d == delete_collection(st, fault)
    IN  IF d.exc = "ValueError"
        THEN [exc |-> TRUE, store |-> st, collection |-> h]
        ELSE setup_vectorstore(d.store, h, fresh, ok)

\* reset_vectorstore: delete_collection, whatever it raises, then
\* setup_vectorstore.
reset_vectorstore(st, h, fresh, fault, ok) ==
    LET d == delete_collection(st, fault)
    IN  setup_vectorstore(d.store, h, fresh, ok)

\* get_collection_count: 0 without a collection and when count() raises.
get_collection_count(st, h) ==
    IF h = None THEN 0
    ELSE IF ~Live(h, st) THEN 0
    ELSE BagCardinality(st.docs)

(***************************************************************************)
(* JobApplicationGenerator._retrieve_context                               *)
(* (src/src/generation_chains.py:38-59).                                   *)
(***************************************************************************)
NoContext == "No relevant background information available."
ContextError == "Error retrieving background information."

\* sep.join(parts)
RECURSIVE Join(_, _)
Join(parts, sep) ==
    IF parts = <<>> THEN ""
    ELSE IF Len(parts) = 1 THEN parts[1]
    ELSE parts[1] \o sep \o Join(Tail(parts), sep)

\* _retrieve_context collecting the texts from the last result to the first.
retrieve_context_try_reversed(found) ==
    IF found.exc THEN [exc |-> TRUE, value |-> ""]
    ELSE IF found.value = <<>> THEN [exc |-> FALSE, value |-> NoContext]
    ELSE LET k == Len(found.value)
         IN  [exc |-> FALSE,
              value |-> Join([i \in 1..k |-> found.value[k + 1 - i].text],
                             "\n\n")]

\* The try block of _retrieve_context; found: what search_similar returned.
retrieve_context_try(found) ==
    IF found.exc THEN [exc |-> TRUE, value |-> ""]
    ELSE IF found.value = <<>> THEN [exc |-> FALSE, value |-> NoContext]
    ELSE [exc |-> FALSE,
          value |-> Join([i \in 1..Len(found.value) |-> found.value[i].text],
                         "\n\n")]

retrieve_context(found) ==
    LET r == retrieve_context_try(found)
    IN  IF r.exc THEN [exc |-> FALSE, value |-> ContextError] ELSE r

(***************************************************************************)
(* Prompt templates (src/src/prompt_templates.py).  A template is the      *)
(* sequence of its literal stretches and its replacement fields; the long  *)
(* literal stretches are cut to their first line.                          *)
(***************************************************************************)
Lit(t) == [field |-> FALSE, text |-> t]
Field(f) == [field |-> TRUE, text |-> f]

RESUME_BULLET_PROMPT ==
    <<Lit("You are an expert resume writer.\n**Job Description**:\n"),
      Field("job_description"),
      Lit("\n**Candidate's Full Resume Content**:\n"), Field("context"),
      Lit("\n**Candidate's Name**: "), Field("name"),
      Lit("\n**Instructions**:\n")>>

COVER_LETTER_PROMPT ==
    <<Lit("You are a professional cover letter writer.\n**Job Description**:\n"),
      Field("job_description"),
      Lit("\n**Company Name**: "), Field("company_name"),
      Lit("\n**Role Title**: "), Field("role_title"),
      Lit("\n**Candidate's Relevant Experience/Context**:\n"), Field("context"),
      Lit("\n**Instructions**:\n")>>

ATS_ANALYSIS_PROMPT ==
    <<Lit("You are an ATS expert.\n**Job Description**:\n"),
      Field("job_description"),
      Lit("\n**Candidate's Resume Content**:\n"), Field("resume_content"),
      Lit("\n**Instructions**:\n")>>

LINKEDIN_MESSAGE_PROMPT ==
    <<Lit("You are a professional networking expert.\n**Job Description**:\n"),
      Field("job_description"),
      Lit("\n**Company Name**: "), Field("company_name"),
      Lit("\n**Role Title**: "), Field("role_title"),
      Lit("\n**One Key Achievement/Qualification**:\n"), Field("achievement"),
      Lit("\n**Instructions**:\n")>>

\* The dict of get_prompt, and its keys in insertion order.
prompts ==
    [resume_bullets |-> RESUME_BULLET_PROMPT,
     cover_letter |-> COVER_LETTER_PROMPT,
     ats_analysis |-> ATS_ANALYSIS_PROMPT,
     linkedin_message |-> LINKEDIN_MESSAGE_PROMPT]

PromptTypes ==
    <<"resume_bullets", "cover_letter", "ats_analysis", "linkedin_message">>

\* The template table get_prompt works from: the shipped one, one that does
\* not know template t, one whose template t names a field no caller passes.
TemplateFaults == {"none", "unknown", "missing"}

PromptTable(fault, t) ==
    CASE fault = "unknown" -> [k \in DOMAIN prompts \ {t} |-> prompts[k]]
      [] fault = "missing" -> [prompts EXCEPT ![t] = @ \o <<Field("tone")>>]
      [] OTHER -> prompts

\* repr of the list of the keys of a table: ['a', 'b'].
RECURSIVE KeysFrom(_, _)
KeysFrom(table, i) ==
    IF i > Len(PromptTypes) THEN ""
    ELSE LET rest == KeysFrom(table, i + 1)
         IN  IF PromptTypes[i] \notin DOMAIN table THEN rest
             ELSE "'" \o PromptTypes[i] \o "'"
                      \o (IF rest = "" THEN "" ELSE ", " \o rest)

\* template.format(**kwargs): KeyError on the first field kwargs lacks.
RECURSIVE format(_, _)
format(template, kwargs) ==
    IF template = <<>> THEN [exc |-> "", key |-> "", value |-> ""]
    ELSE LET part == Head(template)
             rest == format(Tail(template), kwargs)
         IN  IF part.field /\ part.text \notin DOMAIN kwargs
             THEN [exc |-> "KeyError", key |-> part.text, value |-> ""]
             ELSE IF rest.exc # "" THEN rest
             ELSE [exc |-> "", key |-> "",
                   value |-> (IF part.field THEN kwargs[part.text]
                              ELSE part.text) \o rest.value]

\* get_prompt(prompt_type, **kwargs) over a template table.
get_prompt(table, prompt_type, kwargs) ==
    IF prompt_type \notin DOMAIN table
    THEN [exc |-> "ValueError",
          msg |-> "Unknown prompt type: " \o prompt_type \o ". Valid types: ["
                      \o KeysFrom(table, 1) \o "]",
          value |-> ""]
    ELSE LET r == format(table[prompt_type], kwargs)
         IN  IF r.exc # ""
             THEN [exc |-> "ValueError",
                   msg |-> "Missing required argument for " \o prompt_type
                               \o " prompt: '" \o r.key \o "'",
                   value |-> ""]
             ELSE [exc |-> "", msg |-> "", value |-> r.value]

(***************************************************************************)
(* The completion collaborator: self.llm.invoke(prompt).content.  llm says *)
(* whether the call raises; its text is a function of the prompt.          *)
(***************************************************************************)
LlmOutcomes == {"ok", "raise"}
LlmError == "Connection error."

Completion(prompt) == "[completion of] " \o prompt

llm_invoke(prompt, llm) ==
    IF llm = "raise" THEN [exc |-> "APIConnectionError", msg |-> LlmError,
                           content |-> ""]
    ELSE [exc |-> "", msg |-> "", content |-> Completion(prompt)]

(***************************************************************************)
(* JobApplicationGenerator (src/src/generation_chains.py).  An operation   *)
(* issues its searches (X_searches: the query and the limit of each), is   *)
(* handed what search_similar returned for them (founds), renders its      *)
(* prompt and invokes the language model.  Its outcome: exc, the exception *)
(* that leaves it ("" for none); value, what it returns; prompt, the       *)
(* prompt it rendered; invoked, the calls of the language model it made;   *)
(* failed, the step that raised inside it.                                 *)
(***************************************************************************)
\* "Format prompt" and "Generate with LLM" of each generate_* operation.
prompt_and_invoke(table, prompt_type, kwargs, llm) ==
    LET prompt == get_prompt(table, prompt_type, kwargs)
        response == llm_invoke(prompt.value, llm)
    IN  IF prompt.exc # ""
        THEN [exc |-> prompt.exc, msg |-> prompt.msg, value |-> "",
              prompt |-> "", invoked |-> 0, failed |-> "template"]
        ELSE IF response.exc # ""
        THEN [exc |-> response.exc, msg |-> response.msg, value |-> "",
              prompt |-> prompt.value, invoked |-> 1, failed |-> "completion"]
        ELSE [exc |-> "", msg |-> "", value |-> response.content,
              prompt |-> prompt.value, invoked |-> 1, failed |-> ""]

\* except Exception as e: return f"Error: {str(e)}"
error_text(r) ==
    IF r.exc # "" THEN [r EXCEPT !.exc = "", !.value = "Error: " \o r.msg]
    ELSE r

generate_resume_bullets_searches(job_description) ==
    <<[query |-> job_description, n |-> 5]>>

generate_resume_bullets_try(founds, job_description, candidate_name, table, llm) ==
    prompt_and_invoke(table, "resume_bullets",
        [job_description |-> job_description,
         context |-> retrieve_context(founds[1]).value,
         name |-> candidate_name], llm)

\* generate_resume_bullets without its except clause.
generate_resume_bullets_uncaught(founds, job_description, candidate_name, table, llm) ==
    generate_resume_bullets_try(founds, job_description, candidate_name, table,
                                llm)

generate_resume_bullets(founds, job_description, candidate_name, table, llm) ==
    error_text(generate_resume_bullets_try(founds, job_description,
                                           candidate_name, table, llm))

\* The retrieval of the cover letter with n_results left at its default.
generate_cover_letter_searches_default(job_description) ==
    <<[query |-> job_description, n |-> 3]>>

generate_cover_letter_searches(job_description) ==
    <<[query |-> job_description, n |-> 5]>>

generate_cover_letter_try(founds, job_description, company_name, role_title, table, llm) ==
    prompt_and_invoke(table, "cover_letter",
        [job_description |-> job_description,
         company_name |-> company_name,
         role_title |-> role_title,
         context |-> retrieve_context(founds[1]).value], llm)

generate_cover_letter(founds, job_description, company_name, role_title, table, llm) ==
    error_text(generate_cover_letter_try(founds, job_description, company_name,
                                         role_title, table, llm))

AtsPlaceholder == "Resume content not provided for ATS analysis."
AtsQuery == "resume work experience projects skills education background"

\* The characters str.strip, str.split and \s of re take for white space
\* (str.isspace) among those a string of this module can hold: tab, line
\* feed, vertical tab, form feed, carriage return, the separators
\* 0x1c-0x1f, space, next line (0x85), no-break space (0xa0) and ogham
\* space mark (0x1680).
Whitespace ==
    {"\t", "\n", "", "\f", "\r", "", "", "", "", " ", "", " ", " "}

\* str.strip()
strip(s) ==
    LET n == Len(s)
        Blank(i) == SubSeq(s, i, i) \in Whitespace
    IN  IF \A i \in 1..n : Blank(i) THEN ""
        ELSE LET first == CHOOSE i \in 1..n :
                             ~Blank(i) /\ \A j \in 1..(i - 1) : Blank(j)
                 back == CHOOSE k \in 0..(n - 1) :
                            ~Blank(n - k) /\ \A j \in (n - k + 1)..n : Blank(j)
             IN  SubSeq(s, first, n - back)

\* The test of line 148 without its middle disjunct.
ats_falls_back_exact(resume_content) ==
    resume_content = "" \/ resume_content = AtsPlaceholder

\* not resume_content or resume_content.strip() == "" or resume_content ==
\* the placeholder
ats_falls_back(resume_content) ==
    \/ resume_content = ""
    \/ strip(resume_content) = ""
    \/ resume_content = AtsPlaceholder

\* The retrieval of the fallback with the limit of the other operations.
generate_ats_analysis_searches_five(resume_content) ==
    IF ats_falls_back(resume_content) THEN <<[query |-> AtsQuery, n |-> 5]>>
    ELSE <<>>

generate_ats_analysis_searches(resume_content) ==
    IF ats_falls_back(resume_content) THEN <<[query |-> AtsQuery, n |-> 10]>>
    ELSE <<>>

generate_ats_analysis_try(founds, job_description, resume_content, table, llm) ==
    prompt_and_invoke(table, "ats_analysis",
        [job_description |-> job_description,
         resume_content |-> IF ats_falls_back(resume_content)
                            THEN retrieve_context(founds[1]).value
                            ELSE resume_content], llm)

generate_ats_analysis(founds, job_description, resume_content, table, llm) ==
    error_text(generate_ats_analysis_try(founds, job_description,
                                         resume_content, table, llm))

NoAchievement == "relevant experience in the field"

generate_linkedin_message_searches(job_description) ==
    <<[query |-> job_description, n |-> 1]>>

\* The achievement falling back to the sentinel of _retrieve_context.
achievement_sentinel(results) ==
    IF results # <<>> THEN results[1].text ELSE NoContext

\* results[0]['text'] if results else the fixed string
achievement(results) ==
    IF results # <<>> THEN results[1].text ELSE NoAchievement

generate_linkedin_message_try(founds, job_description, company_name, role_title, table, llm) ==
    IF founds[1].exc
    THEN [exc |-> "Exception", msg |-> "search failed", value |-> "",
          prompt |-> "", invoked |-> 0, failed |-> "search"]
    ELSE prompt_and_invoke(table, "linkedin_message",
            [job_description |-> job_description,
             company_name |-> company_name,
             role_title |-> role_title,
             achievement |-> achievement(founds[1].value)], llm)

generate_linkedin_message(founds, job_description, company_name, role_title, table, llm) ==
    error_text(generate_linkedin_message_try(founds, job_description,
                                             company_name, role_title, table,
                                             llm))

\* The four artifacts, in the order generate_all builds them.
Artifacts ==
    <<"resume_bullets", "cover_letter", "ats_analysis", "linkedin_message">>

\* parts with the result of one more operation.
Put(parts, a, v) ==
    [k \in DOMAIN parts \cup {a} |-> IF k = a THEN v ELSE parts[k]]

\* The searches the operation of artifact a issues.
searches_of(a, job_description, resume_content) ==
    CASE a = "resume_bullets" -> generate_resume_bullets_searches(job_description)
      [] a = "cover_letter" -> generate_cover_letter_searches(job_description)
      [] a = "ats_analysis" -> generate_ats_analysis_searches(resume_content)
      [] a = "linkedin_message" ->
            generate_linkedin_message_searches(job_description)

\* The entry of the dict of generate_all for artifact a: the call of its
\* operation.
generate_entry(a, founds, job_description, company_name, role_title, candidate_name, resume_content, table, llm) ==
    CASE a = "resume_bullets" ->
            generate_resume_bullets(founds, job_description, candidate_name,
                                    table, llm)
      [] a = "cover_letter" ->
            generate_cover_letter(founds, job_description, company_name,
                                  role_title, table, llm)
      [] a = "ats_analysis" ->
            generate_ats_analysis(founds, job_description, resume_content,
                                  table, llm)
      [] a = "linkedin_message" ->
            generate_linkedin_message(founds, job_description, company_name,
                                      role_title, table, llm)

\* generate_all with one try around the four operations: one error text
\* for every artifact once any of them failed.
generate_all_shared_try(parts) ==
    LET broken == {i \in 1..Len(Artifacts) :
                      /\ Artifacts[i] \in DOMAIN parts
                      /\ parts[Artifacts[i]].failed # ""}
    IN  [exc |-> "",
         value |-> [a \in DOMAIN parts |->
                      IF broken = {} THEN parts[a].value
                      ELSE "Error: " \o parts[Artifacts[CHOOSE i \in broken :
                                          \A j \in broken : i <= j]].msg],
         parts |-> parts]

\* generate_all, lines 235-240: the dict of the values of the operations
\* called so far (parts holds what each returned), which is what
\* generate_all returns once the four are in; an exception leaving an
\* operation leaves generate_all.
generate_all(parts) ==
    LET raised == {i \in 1..Len(Artifacts) :
                      /\ Artifacts[i] \in DOMAIN parts
                      /\ parts[Artifacts[i]].exc # ""}
    IN  IF raised # {}
        THEN [exc |-> parts[Artifacts[CHOOSE i \in raised :
                                \A j \in raised : i <= j]].exc,
              value |-> <<>>, parts |-> parts]
        ELSE [exc |-> "",
              value |-> [a \in DOMAIN parts |-> parts[a].value],
              parts |-> parts]

(***************************************************************************)
(* Text processing (src/src/utils.py).  A text is a string; Chars gives    *)
(* its characters and Str puts characters together again.                  *)
(***************************************************************************)
Chars(s) == [i \in 1..Len(s) |-> SubSeq(s, i, i)]

RECURSIVE Str(_, _, _)
Str(cs, lo, hi) ==
    IF lo > hi THEN ""
    ELSE IF lo = hi THEN cs[lo]
    ELSE LET mid == (lo + hi) \div 2
         IN  Str(cs, lo, mid) \o Str(cs, mid + 1, hi)

\* [a-zA-Z0-9]
Alphanumeric ==
    {"a", "b", "c", "d", "e", "f", "g", "h", "i", "j", "k", "l", "m", "n", "o",
     "p", "q", "r", "s", "t", "u", "v", "w", "x", "y", "z",
     "A", "B", "C", "D", "E", "F", "G", "H", "I", "J", "K", "L", "M", "N", "O",
     "P", "Q", "R", "S", "T", "U", "V", "W", "X", "Y", "Z",
     "0", "1", "2", "3", "4", "5", "6", "7", "8", "9"}

\* [a-zA-Z0-9\s.,!?-]
KeptCharacters == Alphanumeric \cup Whitespace \cup {".", ",", "!", "?", "-"}

\* re.sub(run, ' ', text) for the runs of characters of the set `of`.
CollapseRuns(cs, of) ==
    LET idx == [i \in 1..Len(cs) |-> i]
        First(i) == cs[i] \notin of \/ i = 1 \/ cs[i - 1] \notin of
        kept == SelectSeq(idx, First)
    IN  [k \in 1..Len(kept) |-> IF cs[kept[k]] \in of THEN " " ELSE cs[kept[k]]]

\* clean_text
clean_text(text) ==
    IF text = "" THEN ""
    ELSE LET Kept(c) == c \in KeptCharacters
             a == CollapseRuns(Chars(text), {"\n"})
             b == SelectSeq(a, Kept)
             c == CollapseRuns(b, Whitespace)
         IN  strip(Str(c, 1, Len(c)))

\* The elements of a set of numbers in ascending order.
Ascending(S) ==
    [k \in 1..Cardinality(S) |->
        CHOOSE i \in S : Cardinality({j \in S : j < i}) = k - 1]

\* re.split(r'(?<=[.!?])\s+', text): the text is cut at every run of
\* whitespace that follows one of . ! ?
split_sentences(text) ==
    LET cs == Chars(text)
        n == Len(cs)
        starts == Ascending({i \in 2..n : /\ cs[i] \in Whitespace
                                          /\ cs[i - 1] \in {".", "!", "?"}})
        RunEnd(i) == CHOOSE j \in i..n :
                        /\ \A k \in i..j : cs[k] \in Whitespace
                        /\ j = n \/ cs[j + 1] \notin Whitespace
        m == Len(starts)
    IN  [k \in 1..(m + 1) |->
            SubSeq(text,
                   IF k = 1 THEN 1 ELSE RunEnd(starts[k - 1]) + 1,
                   IF k = m + 1 THEN n ELSE starts[k] - 1)]

\* The default chunk_size and overlap of chunk_text.
DefaultChunkSize == 500
DefaultOverlap == 50

\* The overlap loop keeping a sentence that brings the total to overlap.
RECURSIVE overlap_loop_inclusive(_, _, _, _)
overlap_loop_inclusive(current_chunk, i, acc, overlap) ==
    IF i = 0 \/ acc.overlap_len + Len(current_chunk[i]) > overlap THEN acc
    ELSE overlap_loop_inclusive(current_chunk, i - 1,
                      [overlap_buffer |-> <<current_chunk[i]>> \o acc.overlap_buffer,
                       overlap_len |-> acc.overlap_len + Len(current_chunk[i])],
                      overlap)

\* The overlap loop of chunk_text from sentence i of the closed chunk down:
\* the last sentences whose lengths add up to less than overlap.
RECURSIVE overlap_loop(_, _, _, _)
overlap_loop(current_chunk, i, acc, overlap) ==
    IF i = 0 \/ acc.overlap_len + Len(current_chunk[i]) >= overlap THEN acc
    ELSE overlap_loop(current_chunk, i - 1,
                      [overlap_buffer |-> <<current_chunk[i]>> \o acc.overlap_buffer,
                       overlap_len |-> acc.overlap_len + Len(current_chunk[i])],
                      overlap)

\* The overflow check looking at the new sentence alone.
closes_chunk_ignoring_current_length(st, sentence, chunk_size) ==
    Len(sentence) > chunk_size /\ st.current_chunk # <<>>

\* The condition under which the loop of chunk_text closes the chunk before
\* it appends the sentence.
closes_chunk(st, sentence, chunk_size) ==
    st.current_length + Len(sentence) > chunk_size /\ st.current_chunk # <<>>

\* One turn of the loop of chunk_text; st: chunks, current_chunk and
\* current_length before it.
chunk_step(st, sentence, chunk_size, overlap) ==
    LET o == overlap_loop(st.current_chunk, Len(st.current_chunk),
                          [overlap_buffer |-> <<>>, overlap_len |-> 0], overlap)
        kept == IF closes_chunk(st, sentence, chunk_size)
                THEN [chunks |-> Append(st.chunks, Join(st.current_chunk, " ")),
                      current_chunk |-> o.overlap_buffer,
                      current_length |-> o.overlap_len]
                ELSE st
    IN  [chunks |-> kept.chunks,
         current_chunk |-> Append(kept.current_chunk, sentence),
         current_length |-> kept.current_length + Len(sentence)]

\* The loop of chunk_text from sentence i on.
RECURSIVE chunk_loop(_, _, _, _, _)
chunk_loop(sentences, i, st, chunk_size, overlap) ==
    IF i > Len(sentences) THEN st
    ELSE chunk_loop(sentences, i + 1,
                    chunk_step(st, sentences[i], chunk_size, overlap),
                    chunk_size, overlap)

\* "Add the last chunk if it exists"
chunk_finish(st) ==
    IF st.current_chunk # <<>>
    THEN Append(st.chunks, Join(st.current_chunk, " "))
    ELSE st.chunks

ChunkStart == [chunks |-> <<>>, current_chunk |-> <<>>, current_length |-> 0]

chunk_text(text, chunk_size, overlap) ==
    IF text = "" THEN <<>>
    ELSE chunk_finish(chunk_loop(split_sentences(text), 1, ChunkStart,
                                 chunk_size, overlap))

\* len(content.split())
WordCount(content) ==
    LET cs == Chars(content)
    IN  Cardinality({i \in 1..Len(cs) :
                        /\ cs[i] \notin Whitespace
                        /\ i = 1 \/ cs[i - 1] \in Whitespace})

\* doc.get(key, default)
doc_get(doc, key, default) == IF key \in DOMAIN doc THEN doc[key] ELSE default

\* extract_metadata; now: datetime.now().isoformat()
extract_metadata(doc, now) ==
    LET content == doc_get(doc, "content", "")
    IN  [filename |-> doc_get(doc, "filename", "unknown"),
         file_type |-> doc_get(doc, "file_type", "unknown"),
         date_processed |-> now,
         word_count |-> IF content # "" THEN WordCount(content) ELSE 0]

\* The loop of create_document_chunks numbering the chunks from one.
enumerate_chunks_from_one(text_chunks, metadata) ==
    [i \in 1..Len(text_chunks) |->
        [text |-> text_chunks[i],
         metadata |-> [filename |-> metadata.filename,
                       file_type |-> metadata.file_type,
                       date_processed |-> metadata.date_processed,
                       word_count |-> metadata.word_count,
                       chunk_index |-> i]]]

\* The loop of create_document_chunks: for i, chunk in enumerate(text_chunks)
enumerate_chunks(text_chunks, metadata) ==
    [i \in 1..Len(text_chunks) |->
        [text |-> text_chunks[i],
         metadata |-> [filename |-> metadata.filename,
                       file_type |-> metadata.file_type,
                       date_processed |-> metadata.date_processed,
                       word_count |-> metadata.word_count,
                       chunk_index |-> i - 1]]]

create_document_chunks(doc, now) ==
    LET raw_content == doc_get(doc, "content", "")
    IN  IF raw_content = "" THEN <<>>
        ELSE enumerate_chunks(chunk_text(clean_text(raw_content),
                                         DefaultChunkSize, DefaultOverlap),
                              extract_metadata(doc, now))

\* No document is being chunked.
NoChunking == [pc |-> "none"]

\* The Streamlit session is not looked at.
NoSession == [page |-> "none"]

(***************************************************************************)
(* The state machine: every operation is one atomic step of one pipeline   *)
(* (the single-caller model of the specification).                         *)
(***************************************************************************)
EmptyMap == [x \in {} |-> None]

\* A pipeline in the middle of no call.
Idle ==
    [pc |-> "idle", chunks |-> <<>>, emb |-> "", query |-> "", n |-> 0,
     calls |-> 0, raced |-> {}]

\* The history record of an operation that took no input and returned nothing.
Op(name, p) ==
    [op |-> name, p |-> p, chunks |-> <<>>, emb |-> "", query |-> "", n |-> 0,
     fault |-> FALSE, ok |-> TRUE, exc |-> FALSE, wrote |-> FALSE,
     again |-> FALSE, absent |-> FALSE,
     results |-> <<>>, context |-> ""]

\* latest after a batch was written.
Written(map, chunks) ==
    LET ids == {ChunkId(chunks[i]) : i \in 1..Len(chunks)}
    IN  [id \in DOMAIN map \cup ids |->
            IF id \in ids
            THEN chunks[CHOOSE i \in 1..Len(chunks) :
                            /\ ChunkId(chunks[i]) = id
                            /\ \A j \in 1..Len(chunks) :
                                  ChunkId(chunks[j]) = id => j <= i]
            ELSE map[id]]

\* The state after the caller's session started over a new store; no other
\* session has started.
Init ==
    \E ok \in BOOLEAN :
        LET a == construct(NoCollection, "u0", ok)
        IN  /\ store = a.store
            /\ collection = [p \in Pipes |-> IF p = Caller THEN a.collection
                                                         ELSE None]
            /\ latest = EmptyMap
            /\ resetClean = {}
            /\ last = Op("init", None)
            /\ inflight = [p \in Pipes |-> Idle]
            /\ contended = {}
            /\ chunking = NoChunking
            /\ session = NoSession

\* A session starts again: RAGPipeline(...) is constructed anew.
Construct(p) ==
    \E ok \in BOOLEAN :
        LET r == construct(store, FreshUid, ok)
        IN  /\ store' = r.store
            /\ collection' = [collection EXCEPT ![p] = r.collection]
            /\ last' = [Op("construct", p) EXCEPT !.ok = ok, !.exc = r.exc]
            /\ UNCHANGED <<session, chunking, latest, resetClean, inflight, contended>>

SetupVectorstore(p) ==
    \E ok \in BOOLEAN :
        LET r == setup_vectorstore(store, collection[p], FreshUid, ok)
        IN  /\ store' = r.store
            /\ collection' = [collection EXCEPT ![p] = r.collection]
            /\ last' = [Op("setup", p) EXCEPT !.ok = ok, !.exc = r.exc]
            /\ UNCHANGED <<session, chunking, latest, resetClean, inflight, contended>>

\* add_documents(chunks) comes right after add_documents(chunks) of the same
\* pipeline, the embedding succeeding both times.
Again(p, chunks, emb) ==
    /\ last.op = "add" /\ last.p = p /\ last.emb = "ok"
    /\ chunks # <<>> /\ last.chunks = chunks /\ emb = "ok"

AddDocuments(p) ==
    \E chunks \in ChunkLists, emb \in {"ok", "raise", "empty"} :
        LET r == add_documents(store, collection[p], chunks, emb)
        IN  /\ store' = r.store
            /\ latest' = IF r.wrote THEN Written(latest, chunks) ELSE latest
            /\ resetClean' = IF r.wrote THEN {} ELSE resetClean
            /\ last' = [Op("add", p) EXCEPT !.chunks = chunks, !.emb = emb,
                                            !.exc = r.exc, !.wrote = r.wrote,
                                            !.again = Again(p, chunks, emb)]
            /\ UNCHANGED <<session, chunking, collection, inflight, contended>>

\* What may fail in one search: nothing, embed_query, collection.query.
SearchFailures == {"none", "embed", "query"}

SearchSimilar(p) ==
    \E query \in Queries, n \in 0..MaxN, fail \in SearchFailures :
        \E results \in collection_query(store, collection[p], embed(query), n,
                                        fail = "query") :
            LET embq == IF fail = "embed" THEN "raise" ELSE "ok"
                r == search_similar(embq, results)
            IN  /\ last' = [Op("search", p) EXCEPT !.query = query, !.n = n,
                                !.emb = embq, !.fault = (fail = "query"),
                                !.exc = r.exc, !.results = r.value]
                /\ UNCHANGED <<session, chunking, store, collection, latest, resetClean, inflight,
                               contended>>

RetrieveContext(p) ==
    \E query \in Queries, n \in 0..MaxN, fail \in SearchFailures :
        \E results \in collection_query(store, collection[p], embed(query), n,
                                        fail = "query") :
            LET embq == IF fail = "embed" THEN "raise" ELSE "ok"
                found == search_similar(embq, results)
                r == retrieve_context(found)
            IN  /\ last' = [Op("retrieve", p) EXCEPT !.query = query, !.n = n,
                                !.emb = embq, !.fault = (fail = "query"),
                                !.exc = r.exc, !.results = found.value,
                                !.context = r.value]
                /\ UNCHANGED <<session, chunking, store, collection, latest, resetClean, inflight,
                               contended>>

ResetVectorstore(p) ==
    \E fault \in BOOLEAN, ok \in BOOLEAN :
        LET r == reset_vectorstore(store, collection[p], FreshUid, fault, ok)
        IN  /\ store' = r.store
            /\ collection' = [collection EXCEPT ![p] = r.collection]
            /\ latest' = IF delete_collection(store, fault).exc = ""
                         THEN EmptyMap ELSE latest
            /\ resetClean' = resetClean \cup {p}
            /\ last' = [Op("reset", p) EXCEPT !.fault = fault, !.ok = ok,
                                              !.exc = r.exc,
                                              !.absent = ~store.exists]
            /\ UNCHANGED <<session, chunking, inflight, contended>>

Next ==
    \E p \in {Caller} :
        \/ Construct(p)
        \/ SetupVectorstore(p)
        \/ AddDocuments(p)
        \/ SearchSimilar(p)
        \/ RetrieveContext(p)
        \/ ResetVectorstore(p)

Spec == Init /\ [][Next]_vars

(***************************************************************************)
(* The sessions running at once.  No method of RAGPipeline takes a lock,   *)
(* so a call is as many steps as it makes calls to its collaborators: the  *)
(* embedding call and then the store call of add_documents and of          *)
(* search_similar, delete_collection and then setup_vectorstore of         *)
(* reset_vectorstore.  The upsert is two steps, its call and its return:   *)
(* what the store holds after two upserts in progress together is not      *)
(* decided by the source, and is left open.  A session runs one call at a  *)
(* time.                                                                   *)
(***************************************************************************)
\* The batches and the search the concurrent sessions issue.
ConcChunkLists == {DocChunks("cv.pdf", 1, 1), DocChunks("cv.pdf", MaxChunks, 2)}
ConcQuery == "backend engineer"

\* Both sessions have started over a new store.
InitConc ==
    LET a == construct(NoCollection, "u0", TRUE)
        b == construct(a.store, "u0", TRUE)
    IN  /\ store = b.store
        /\ collection = [p \in Pipes |-> IF p = Caller THEN a.collection
                                                     ELSE b.collection]
        /\ latest = EmptyMap
        /\ resetClean = {}
        /\ last = Op("init", None)
        /\ inflight = [p \in Pipes |-> Idle]
        /\ contended = {}
        /\ chunking = NoChunking
        /\ session = NoSession

BatchIds(chunks) == {ChunkId(chunks[i]) : i \in 1..Len(chunks)}

\* add_documents, lines 95-105: the embedding call.
AddEmbed(p) ==
    /\ inflight[p].pc = "idle"
    /\ \E chunks \in ConcChunkLists, emb \in {"ok", "raise"} :
          inflight' = [inflight EXCEPT ![p] =
                          [Idle EXCEPT !.pc = "add_upsert", !.chunks = chunks,
                                       !.emb = emb]]
    /\ UNCHANGED <<session, chunking, store, collection, latest, resetClean, last, contended>>

\* The ids the upsert of p writes that a call of another session, past its
\* embedding and not returned, writes too; with the chunk p wrote, and
\* whether the two collection.upsert calls were in progress together.
Overlap(p) ==
    {[id |-> ChunkId(inflight[p].chunks[i]), first |-> inflight[p].chunks[i],
      raced |-> \E q \in Pipes \ {p} :
                    /\ inflight[q].pc = "add_upserting"
                    /\ ChunkId(inflight[p].chunks[i]) \in BatchIds(inflight[q].chunks)] :
        i \in {i \in 1..Len(inflight[p].chunks) :
                 \E q \in Pipes \ {p} :
                    /\ inflight[q].pc \in {"add_upsert", "add_upserting"}
                    /\ inflight[q].emb = "ok"
                    /\ ChunkId(inflight[p].chunks[i]) \in BatchIds(inflight[q].chunks)}}

\* What a collection.upsert call of batch b may leave in the store when
\* upserts of the chunks raced completed while it was in progress.
\* RAGPipeline takes no lock around the call (lines 111-116) and the store
\* is asked for nothing about two calls at once, so for an id both wrote
\* each of the text, the metadata and the embedding is the one or the
\* other call's.  With raced empty it is b.
RacedBatches(b, raced) ==
    LET n == Len(b.ids)
        Others(i) == {c \in raced : ChunkId(c) = b.ids[i]}
        Tuples(i) ==
            {[text |-> t, metadata |-> m, embedding |-> e] :
                t \in {b.texts[i]} \cup {c.text : c \in Others(i)},
                m \in {b.metadatas[i]} \cup {c.metadata : c \in Others(i)},
                e \in {b.embeddings[i]} \cup {embed(c.text) : c \in Others(i)}}
        All == UNION {Tuples(i) : i \in 1..n}
    IN  {[texts |-> [i \in 1..n |-> f[i].text],
          metadatas |-> [i \in 1..n |-> f[i].metadata],
          ids |-> b.ids,
          embeddings |-> [i \in 1..n |-> f[i].embedding]] :
            f \in {g \in [1..n -> All] : \A i \in 1..n : g[i] \in Tuples(i)}}

\* add_documents, lines 107-116: the abort after a failed embedding, or
\* the call of collection.upsert.
AddUpsert(p) ==
    /\ inflight[p].pc = "add_upsert"
    /\ LET b == add_documents_prepare(inflight[p].chunks, inflight[p].emb)
       IN  inflight' = [inflight EXCEPT ![p] =
                          IF b.embeddings = <<>> THEN Idle
                          ELSE [@ EXCEPT !.pc = "add_upserting", !.raced = {}]]
    /\ UNCHANGED <<session, chunking, store, collection, latest, resetClean,
                   last, contended>>

\* add_documents, lines 111-119: collection.upsert returns or raises.
AddUpsertReturn(p) ==
    /\ inflight[p].pc = "add_upserting"
    /\ LET b == add_documents_prepare(inflight[p].chunks, inflight[p].emb)
       IN  \E m \in RacedBatches(b, inflight[p].raced) :
             LET r == add_documents_write(store, collection[p], m)
             IN  /\ store' = r.store
                 /\ latest' = IF r.wrote THEN Written(latest, inflight[p].chunks)
                              ELSE latest
                 /\ resetClean' = IF r.wrote THEN {} ELSE resetClean
                 /\ contended' = IF r.wrote THEN contended \cup Overlap(p)
                                 ELSE contended
                 /\ inflight' =
                       [q \in Pipes |->
                          IF q = p THEN Idle
                          ELSE IF r.wrote /\ inflight[q].pc = "add_upserting"
                          THEN [inflight[q] EXCEPT
                                  !.raced = @ \cup Range(inflight[p].chunks)]
                          ELSE inflight[q]]
    /\ UNCHANGED <<session, chunking, collection, last>>

\* search_similar, line 133: the embedding of the query.
SearchEmbed(p) ==
    /\ inflight[p].pc = "idle"
    /\ \E n \in 1..MaxN, embq \in {"ok", "raise"} :
          inflight' = [inflight EXCEPT ![p] =
                          [Idle EXCEPT !.pc = IF embq = "ok" THEN "search_query"
                                              ELSE "search_failed",
                                       !.query = ConcQuery, !.n = n, !.emb = embq]]
    /\ UNCHANGED <<session, chunking, store, collection, latest, resetClean, last, contended>>

\* search_similar, lines 135-154: the query and the formatting of its answer,
\* or the except clause after a failed embedding.
SearchQuery(p) ==
    /\ inflight[p].pc \in {"search_query", "search_failed"}
    /\ inflight' = [inflight EXCEPT ![p] = Idle]
    /\ UNCHANGED <<session, chunking, store, collection, latest, resetClean, last, contended>>

\* reset_vectorstore, lines 161-168: delete_collection.
ResetDelete(p) ==
    /\ inflight[p].pc = "idle"
    /\ \E fault \in BOOLEAN :
          LET d == delete_collection(store, fault)
          IN  /\ store' = d.store
              /\ latest' = IF d.exc = "" THEN EmptyMap ELSE latest
              /\ contended' = IF d.exc = "" THEN {} ELSE contended
    /\ inflight' = [inflight EXCEPT ![p] = [Idle EXCEPT !.pc = "reset_setup"]]
    /\ UNCHANGED <<session, chunking, collection, resetClean, last>>

\* reset_vectorstore, line 170: setup_vectorstore.
ResetSetup(p) ==
    /\ inflight[p].pc = "reset_setup"
    /\ \E ok \in BOOLEAN :
          LET r == setup_vectorstore(store, collection[p], FreshUid, ok)
          IN  /\ store' = r.store
              /\ collection' = [collection EXCEPT ![p] = r.collection]
    /\ resetClean' = resetClean \cup {p}
    /\ inflight' = [inflight EXCEPT ![p] = Idle]
    /\ UNCHANGED <<session, chunking, latest, last, contended>>

NextConc ==
    \E p \in Pipes :
        \/ AddEmbed(p)
        \/ AddUpsert(p)
        \/ AddUpsertReturn(p)
        \/ SearchEmbed(p)
        \/ SearchQuery(p)
        \/ ResetDelete(p)
        \/ ResetSetup(p)

SpecConc == InitConc /\ [][NextConc]_vars

(***************************************************************************)
(* The generator over an index that holds the documents of the session.    *)
(* Each of the four generate_* operations reads the store once, in its     *)
(* one search, so a call of one is one step; last records its inputs, the  *)
(* searches it issued, what they found and its outcome.  The generator     *)
(* keeps no state between calls, so a behaviour follows one call.          *)
(***************************************************************************)
CompanyName == "Acme"
RoleTitle == "Backend Engineer"
CandidateName == "Ada Lovelace"

\* Resume texts handed to the ATS analysis: none, blank ones (one a blank
\* line ending in carriage return and line feed), the placeholder of
\* app.py, texts that contain it, a resume.
ResumeContents ==
    {"", " ", " \n\t", "\r\n ", AtsPlaceholder, " " \o AtsPlaceholder,
     AtsPlaceholder \o " See attached.", "Python developer, 5 years."}

\* What add_documents stored before the generator is called: nothing, the
\* resume in one or two chunks, one chunk of empty text.
IndexedChunkLists ==
    {<<>>, DocChunks("cv.pdf", 1, 1), DocChunks("cv.pdf", 2, 1),
     DocChunks("notes.txt", 1, 0)}

\* The session started (its collection set up, or not) and indexed its
\* documents.
InitGen ==
    \E ok \in BOOLEAN, chunks \in IndexedChunkLists :
        LET a == construct(NoCollection, "u0", ok)
            w == add_documents(a.store, a.collection, chunks, "ok")
        IN  /\ store = w.store
            /\ collection = [p \in Pipes |-> IF p = Caller THEN a.collection
                                                         ELSE None]
            /\ latest = IF w.wrote THEN Written(EmptyMap, chunks) ELSE EmptyMap
            /\ resetClean = {}
            /\ last = Op("init", None)
            /\ inflight = [p \in Pipes |-> Idle]
            /\ contended = {}
            /\ chunking = NoChunking
            /\ session = NoSession

\* What search_similar returns for the searches an operation issues (none
\* or one); fail: what fails in the search.
FoundsFor(p, reqs, fail) ==
    IF reqs = <<>> THEN {<<>>}
    ELSE {<<search_similar(IF fail = "embed" THEN "raise" ELSE "ok", results)>> :
            results \in collection_query(store, collection[p],
                                         embed(reqs[1].query), reqs[1].n,
                                         fail = "query")}

\* The history record of a generate_* call.
Generated(name, p, jd, resume, fail, fault, llm, reqs, founds, r) ==
    [op |-> name, p |-> p, job_description |-> jd, resume_content |-> resume,
     fail |-> fail, template |-> fault, llm |-> llm, searches |-> reqs,
     founds |-> founds, out |-> r]

GenerateResumeBullets(p) ==
    /\ last.op = "init"
    /\ \E jd \in Queries, fail \in SearchFailures, fault \in TemplateFaults,
       llm \in LlmOutcomes :
        LET reqs == generate_resume_bullets_searches(jd)
        IN  \E founds \in FoundsFor(p, reqs, fail) :
                /\ last' = Generated("resume_bullets", p, jd, "", fail, fault,
                              llm, reqs, founds,
                              generate_resume_bullets(founds, jd, CandidateName,
                                  PromptTable(fault, "resume_bullets"), llm))
                /\ UNCHANGED <<session, chunking, store, collection, latest, resetClean, inflight,
                               contended>>

GenerateCoverLetter(p) ==
    /\ last.op = "init"
    /\ \E jd \in Queries, fail \in SearchFailures, fault \in TemplateFaults,
       llm \in LlmOutcomes :
        LET reqs == generate_cover_letter_searches(jd)
        IN  \E founds \in FoundsFor(p, reqs, fail) :
                /\ last' = Generated("cover_letter", p, jd, "", fail, fault,
                              llm, reqs, founds,
                              generate_cover_letter(founds, jd, CompanyName,
                                  RoleTitle, PromptTable(fault, "cover_letter"),
                                  llm))
                /\ UNCHANGED <<session, chunking, store, collection, latest, resetClean, inflight,
                               contended>>

GenerateAtsAnalysis(p) ==
    /\ last.op = "init"
    /\ \E jd \in Queries, resume \in ResumeContents, fail \in SearchFailures,
       fault \in TemplateFaults, llm \in LlmOutcomes :
        LET reqs == generate_ats_analysis_searches(resume)
        IN  \E founds \in FoundsFor(p, reqs, fail) :
                /\ last' = Generated("ats_analysis", p, jd, resume, fail, fault,
                              llm, reqs, founds,
                              generate_ats_analysis(founds, jd, resume,
                                  PromptTable(fault, "ats_analysis"), llm))
                /\ UNCHANGED <<session, chunking, store, collection, latest, resetClean, inflight,
                               contended>>

GenerateLinkedinMessage(p) ==
    /\ last.op = "init"
    /\ \E jd \in Queries, fail \in SearchFailures, fault \in TemplateFaults,
       llm \in LlmOutcomes :
        LET reqs == generate_linkedin_message_searches(jd)
        IN  \E founds \in FoundsFor(p, reqs, fail) :
                /\ last' = Generated("linkedin_message", p, jd, "", fail, fault,
                              llm, reqs, founds,
                              generate_linkedin_message(founds, jd, CompanyName,
                                  RoleTitle,
                                  PromptTable(fault, "linkedin_message"), llm))
                /\ UNCHANGED <<session, chunking, store, collection, latest, resetClean, inflight,
                               contended>>

NextGen ==
    \E p \in {Caller} :
        \/ GenerateResumeBullets(p)
        \/ GenerateCoverLetter(p)
        \/ GenerateAtsAnalysis(p)
        \/ GenerateLinkedinMessage(p)

SpecGen == InitGen /\ [][NextGen]_vars

(***************************************************************************)
(* generate_all at work.  It calls the four operations one after the       *)
(* other, and each reads the store once, in its search: one step per       *)
(* operation.  Each search and each completion fails or not by itself.     *)
(* Another session over the same store may index or reset at any time,     *)
(* before, between and after the steps: add_documents is one step (only    *)
(* its upsert reaches the store), reset_vectorstore two, its delete and    *)
(* its re-creation.  last is the history record of the call: its inputs,   *)
(* for each operation called so far what failed, the searches it issued    *)
(* and what they found, what generate_all has to return, and the number of *)
(* operations called.  inflight[q].calls is the number of calls the other  *)
(* session q has begun.                                                    *)
(***************************************************************************)
\* The most calls another session makes in a behaviour.
MaxOtherCalls == 1

\* The job description and the resume texts handed to generate_all.
AllJobDescriptions == {"backend engineer"}
AllResumeContents == {"", "Python developer, 5 years."}

\* The template tables of a generate_all call: the shipped one, or one
\* faulty for one artifact.
TableFaults ==
    {[fault |-> "none", target |-> ""]}
        \cup {[fault |-> f, target |-> Artifacts[i]] :
                f \in TemplateFaults \ {"none"}, i \in 1..Len(Artifacts)}

\* Both sessions have started over the store, which holds the documents
\* indexed before.
InitAll ==
    \E chunks \in IndexedChunkLists :
        LET a == construct(NoCollection, "u0", TRUE)
            b == construct(a.store, "u0", TRUE)
            w == add_documents(b.store, a.collection, chunks, "ok")
        IN  /\ store = w.store
            /\ collection = [p \in Pipes |-> IF p = Caller THEN a.collection
                                                         ELSE b.collection]
            /\ latest = IF w.wrote THEN Written(EmptyMap, chunks) ELSE EmptyMap
            /\ resetClean = {}
            /\ last = Op("init", None)
            /\ inflight = [p \in Pipes |-> Idle]
            /\ contended = {}
            /\ chunking = NoChunking
            /\ session = NoSession

\* The history record of a generate_all call that has begun.
GeneratingAll(name, p, jd, resume, tf) ==
    [op |-> name, p |-> p, job_description |-> jd, resume_content |-> resume,
     template |-> tf, fail |-> EmptyMap, llm |-> EmptyMap,
     searches |-> EmptyMap, founds |-> EmptyMap, out |-> generate_all(EmptyMap),
     done |-> 0]

\* The next artifact of a call.
NextArtifact(call) == Artifacts[call.done + 1]

\* The record after the next operation was called: its search failed as
\* fail says and found founds, the language model did as llm says.
generate_all_step(call, fail, llm, founds) ==
    LET a == NextArtifact(call)
        part == generate_entry(a, founds, call.job_description, CompanyName,
                    RoleTitle, CandidateName, call.resume_content,
                    PromptTable(call.template.fault, call.template.target),
                    llm)
    IN  [call EXCEPT
           !.done = @ + 1,
           !.fail = Put(@, a, fail),
           !.llm = Put(@, a, llm),
           !.searches = Put(@, a, searches_of(a, call.job_description,
                                              call.resume_content)),
           !.founds = Put(@, a, founds),
           !.out = generate_all(Put(@.parts, a, part))]

\* generate_all is over: its dict is complete, or an exception left it.
Returned(call) == call.done = Len(Artifacts) \/ call.out.exc # ""

\* A generate_all of the kind name has begun and is not over.
Generating(name) == last.op = name /\ ~Returned(last)

\* What may fail in the searches of an operation, of the failures
\* considered: nothing when it issues none.
FailuresOf(reqs, failures) == IF reqs = <<>> THEN {"none"} ELSE failures

\* generate_all(job_description, company_name, role_title, candidate_name,
\* resume_content) is called.
GenerateAllCall(p) ==
    /\ last.op = "init"
    /\ \E jd \in AllJobDescriptions, resume \in AllResumeContents,
          tf \in TableFaults :
          last' = GeneratingAll("generate_all", p, jd, resume, tf)
    /\ UNCHANGED <<session, chunking, store, collection, latest, resetClean,
                   inflight, contended>>

\* generate_all, lines 235-240: the next of the four operations.
GenerateAll(p) ==
    /\ Generating("generate_all") /\ last.p = p
    /\ LET reqs == searches_of(NextArtifact(last), last.job_description,
                               last.resume_content)
       IN  \E fail \in FailuresOf(reqs, SearchFailures), llm \in LlmOutcomes :
             \E founds \in FoundsFor(p, reqs, fail) :
                last' = generate_all_step(last, fail, llm, founds)
    /\ UNCHANGED <<session, chunking, store, collection, latest, resetClean,
                   inflight, contended>>

\* Another session may begin a call: it runs none, and has begun fewer
\* than MaxOtherCalls.
OtherSessionMayCall(q) ==
    inflight[q].pc = "idle" /\ inflight[q].calls < MaxOtherCalls

\* add_documents of another session (a call whose embedding fails leaves
\* everything as it is).
OtherSessionIndexes(q) ==
    /\ OtherSessionMayCall(q)
    /\ \E chunks \in ConcChunkLists :
        LET r == add_documents(store, collection[q], chunks, "ok")
        IN  /\ store' = r.store
            /\ latest' = IF r.wrote THEN Written(latest, chunks) ELSE latest
            /\ resetClean' = IF r.wrote THEN {} ELSE resetClean
    /\ inflight' = [inflight EXCEPT ![q].calls = @ + 1]
    /\ UNCHANGED <<session, chunking, collection, last, contended>>

\* reset_vectorstore of another session, lines 161-168: delete_collection.
OtherSessionResetDelete(q) ==
    /\ OtherSessionMayCall(q)
    /\ \E fault \in BOOLEAN :
          LET d == delete_collection(store, fault)
          IN  /\ store' = d.store
              /\ latest' = IF d.exc = "" THEN EmptyMap ELSE latest
              /\ contended' = IF d.exc = "" THEN {} ELSE contended
    /\ inflight' = [inflight EXCEPT ![q].pc = "reset_setup",
                                    ![q].calls = @ + 1]
    /\ UNCHANGED <<session, chunking, collection, resetClean, last>>

\* reset_vectorstore of another session, line 170: setup_vectorstore.
OtherSessionResetSetup(q) ==
    /\ inflight[q].pc = "reset_setup"
    /\ \E ok \in BOOLEAN :
          LET r == setup_vectorstore(store, collection[q], FreshUid, ok)
          IN  /\ store' = r.store
              /\ collection' = [collection EXCEPT ![q] = r.collection]
    /\ resetClean' = resetClean \cup {q}
    /\ inflight' = [inflight EXCEPT ![q].pc = "idle"]
    /\ UNCHANGED <<session, chunking, latest, last, contended>>

NextAll ==
    \/ GenerateAllCall(Caller)
    \/ GenerateAll(Caller)
    \/ \E q \in Pipes \ {Caller} :
          \/ OtherSessionIndexes(q)
          \/ OtherSessionResetDelete(q)
          \/ OtherSessionResetSetup(q)

SpecAll == InitAll /\ [][NextAll]_vars

(***************************************************************************)
(* The chunker at work on one document: create_document_chunks(doc), or    *)
(* chunk_text(doc.content) called by itself.  One step per turn of the     *)
(* loop of chunk_text; chunking.emitted is history: for each chunk closed, *)
(* its length, the length the loop counted for it, the number of its       *)
(* sentences, the length of its longest sentence, the lengths of the       *)
(* sentence whose overflow check opened it and of the one whose overflow   *)
(* check closed it (0 when there is none), its sentences, the position of  *)
(* its last sentence in the text, and the sentences and the running total  *)
(* it started with.                                                        *)
(***************************************************************************)
\* The most sentences a document holds.
MaxSentences == 4

\* n times the letter a.
RECURSIVE Fill(_)
Fill(n) ==
    IF n = 0 THEN ""
    ELSE IF n = 1 THEN "a"
    ELSE LET half == Fill(n \div 2) IN half \o half \o Fill(n % 2)

\* A sentence of n characters.
Sentence(n) == Fill(n - 1) \o "."

SentenceLengths == {1, 40, 230, 520}
\* What stands between two sentences of a document.
Separators == {" ", "\n\n", "\r\n", " @ "}

\* Documents of up to MaxSentences sentences, and two of many short ones.
Contents ==
    {Join([i \in 1..Len(lens) |-> Sentence(lens[i])], sep) :
        lens \in UNION {[1..k -> SentenceLengths] : k \in 0..MaxSentences},
        sep \in Separators}
      \cup {Join([i \in 1..k |-> Sentence(20)], " ") : k \in {25, 26}}

\* The documents DocumentLoader hands over, one whose content cleans to
\* nothing, and one without a content.
Documents ==
    {[content |-> c, filename |-> "cv.pdf", file_type |-> "pdf"] :
        c \in Contents \cup {"@ @"}}
      \cup {[filename |-> "cv.pdf", file_type |-> "pdf"]}

\* Short texts for chunk_text called with a chunk_size and an overlap of the
\* caller's: up to MaxSentences sentences, the last one with or without
\* white space after it, and the three-sentence document
\* "Experience: ... engineers.".
ShortSentenceLengths == {3, 13, 26, 45}
ExperienceText ==
    "Experience: Built systems. Reduced latency by 40%. Led a team of 5 engineers."
ShortTexts ==
    {Join([i \in 1..Len(lens) |-> Sentence(lens[i])], " ") \o tail :
        lens \in UNION {[1..k -> ShortSentenceLengths] : k \in 0..MaxSentences},
        tail \in {"", " "}}
      \cup {ExperienceText}

\* The chunk_size and overlap a caller passes with a short text.
ChunkSizes == {40}
Overlaps == {0, 10, 30, 39, 40, 60}

\* The calls: a document with the defaults, or a short text with a
\* chunk_size and an overlap.
Calls ==
    {[doc |-> d, chunk_size |-> DefaultChunkSize, overlap |-> DefaultOverlap] :
        d \in Documents}
      \cup {[doc |-> [content |-> t, filename |-> "cv.pdf", file_type |-> "pdf"],
             chunk_size |-> cs, overlap |-> o] :
                t \in ShortTexts, cs \in ChunkSizes, o \in Overlaps}

Now == "2026-01-05T09:00:00"

ChunkingOf(call) ==
    [pc |-> "start", doc |-> call.doc, builds |-> FALSE, text |-> "",
     metadata |-> <<>>, sentences |-> <<>>, i |-> 1, st |-> ChunkStart,
     chunk_size |-> call.chunk_size, overlap |-> call.overlap,
     opened_by |-> 0, seed |-> <<>>, seed_length |-> 0,
     emitted |-> <<>>, chunks |-> <<>>, result |-> <<>>]

\* No session has started; a document is about to be chunked.
InitChunk ==
    /\ \E call \in Calls : chunking = ChunkingOf(call)
    /\ session = NoSession
    /\ store = NoCollection
    /\ collection = [p \in Pipes |-> None]
    /\ latest = EmptyMap
    /\ resetClean = {}
    /\ last = Op("init", None)
    /\ inflight = [p \in Pipes |-> Idle]
    /\ contended = {}

\* chunk_text entered without its test for an empty text.
EnterChunkText_unguarded(c, text) ==
    [c EXCEPT !.pc = "loop", !.text = text, !.sentences = split_sentences(text)]

\* chunk_text, lines 49-58, entered with `text`.
EnterChunkText(c, text) ==
    IF text = "" THEN [c EXCEPT !.pc = IF c.builds THEN "enumerate" ELSE "done"]
    ELSE [c EXCEPT !.pc = "loop", !.text = text,
                   !.sentences = split_sentences(text)]

\* create_document_chunks, lines 120-127.
CreateDocumentChunks ==
    /\ chunking.pc = "start"
    /\ LET raw_content == doc_get(chunking.doc, "content", "")
           c == [chunking EXCEPT !.builds = TRUE,
                                 !.chunk_size = DefaultChunkSize,
                                 !.overlap = DefaultOverlap]
       IN  chunking' =
              IF raw_content = ""
              THEN [c EXCEPT !.pc = "done"]
              ELSE EnterChunkText(
                      [c EXCEPT !.metadata = extract_metadata(chunking.doc, Now)],
                      clean_text(raw_content))
    /\ UNCHANGED <<session, store, collection, latest, resetClean, last, inflight,
                   contended>>

\* chunk_text(text, chunk_size, overlap) called on the content as it is.
ChunkTextAlone ==
    /\ chunking.pc = "start"
    /\ "content" \in DOMAIN chunking.doc
    /\ chunking' = EnterChunkText(chunking, chunking.doc.content)
    /\ UNCHANGED <<session, store, collection, latest, resetClean, last, inflight,
                   contended>>

\* The history entry of the chunk closed now.
Emitted(c, closed_by) ==
    [length |-> Len(Join(c.st.current_chunk, " ")),
     counted |-> c.st.current_length,
     sentences |-> Len(c.st.current_chunk),
     longest |-> CHOOSE n \in {Len(c.st.current_chunk[j]) :
                                 j \in 1..Len(c.st.current_chunk)} :
                    \A j \in 1..Len(c.st.current_chunk) :
                       Len(c.st.current_chunk[j]) <= n,
     opened_by |-> c.opened_by,
     closed_by |-> closed_by,
     chunk |-> c.st.current_chunk,
     upto |-> c.i - 1,
     seed |-> c.seed,
     seed_length |-> c.seed_length]

\* chunk_text, lines 60-84: one turn of the loop.
LoopStep ==
    /\ chunking.pc = "loop"
    /\ chunking.i <= Len(chunking.sentences)
    /\ LET sentence == chunking.sentences[chunking.i]
           closes == closes_chunk(chunking.st, sentence, chunking.chunk_size)
           st == chunk_step(chunking.st, sentence, chunking.chunk_size,
                            chunking.overlap)
       IN  chunking' =
              [chunking EXCEPT
                 !.st = st,
                 !.i = @ + 1,
                 !.opened_by = IF closes THEN Len(sentence) ELSE @,
                 !.seed = IF closes
                          THEN SubSeq(st.current_chunk, 1,
                                      Len(st.current_chunk) - 1)
                          ELSE @,
                 !.seed_length = IF closes
                                 THEN st.current_length - Len(sentence)
                                 ELSE @,
                 !.emitted = IF closes
                             THEN Append(@, Emitted(chunking, Len(sentence)))
                             ELSE @]
    /\ UNCHANGED <<session, store, collection, latest, resetClean, last, inflight,
                   contended>>

\* chunk_text, lines 86-90: the last chunk.
Finish ==
    /\ chunking.pc = "loop"
    /\ chunking.i > Len(chunking.sentences)
    /\ chunking' =
          [chunking EXCEPT
             !.pc = IF chunking.builds THEN "enumerate" ELSE "done",
             !.chunks = chunk_finish(chunking.st),
             !.emitted = IF chunking.st.current_chunk # <<>>
                         THEN Append(@, Emitted(chunking, 0))
                         ELSE @]
    /\ UNCHANGED <<session, store, collection, latest, resetClean, last, inflight,
                   contended>>

\* create_document_chunks, lines 129-139.
EnumerateChunks ==
    /\ chunking.pc = "enumerate"
    /\ chunking' =
          [chunking EXCEPT
             !.pc = "done",
             !.result = enumerate_chunks(chunking.chunks, chunking.metadata)]
    /\ UNCHANGED <<session, store, collection, latest, resetClean, last, inflight,
                   contended>>

NextChunk ==
    \/ CreateDocumentChunks
    \/ ChunkTextAlone
    \/ LoopStep
    \/ Finish
    \/ EnumerateChunks

SpecChunk == InitChunk /\ [][NextChunk]_vars

(***************************************************************************)
(* The Streamlit session of app.py: the handlers of its buttons over       *)
(* st.session_state, the session's RAGPipeline and its generator.  The     *)
(* page is reached with an API key (app.py:461-463), so rag_pipeline and   *)
(* generator are set.  A handler is as many steps as it makes calls that   *)
(* reach the store: one, but for "Reset Vector Store" (the delete and the  *)
(* re-creation of reset_vectorstore) and "Generate All Materials" (a step  *)
(* for the submission and one for each of the four operations of           *)
(* generate_all).  No other handler of the session runs meanwhile; another *)
(* session may act on the store at any time.  last is the history record   *)
(* of the handler that ran or runs, session.runs the number of handlers    *)
(* begun so far, session.generations the number of generate_all calls      *)
(* among them.                                                             *)
(***************************************************************************)
\* The most handlers the session runs.
MaxRuns == 3
\* The most times "Generate All Materials" is submitted with a job
\* description.
MaxGenerations == 1

\* 'generated_results' and 'job_details' are not in st.session_state.
NotStored == [x \in {} |-> None]

\* What may fail in a search of the session: nothing, collection.query.
AppSearchFailures == {"none", "query"}

\* The job description typed into the form: nothing, or one.
JobDescriptions == {"", "backend engineer"}
\* The optional resume text of the form.
FormResumeContents == {"", "Python developer, 5 years."}

\* What "Process and Index Documents" works on: the names of the uploaded
\* files, whether an exception leaves lines 484-505, the number of documents
\* load_all_documents returns, and the chunks create_document_chunks makes
\* of them (none for a document whose content cleans to nothing).
Uploads ==
    {[files |-> <<>>, raises |-> FALSE, documents |-> 0, all_chunks |-> <<>>],
     [files |-> <<"cv.pdf">>, raises |-> TRUE, documents |-> 0,
      all_chunks |-> <<>>],
     [files |-> <<"cv.pdf">>, raises |-> FALSE, documents |-> 0,
      all_chunks |-> <<>>]}
      \cup {[files |-> <<"cv.pdf">>, raises |-> FALSE, documents |-> 1,
             all_chunks |-> c] : c \in {<<>>, DocChunks("cv.pdf", 2, 1)}}

\* init_session_state over a store that is new or holds what another
\* session, still running, indexed.
InitApp ==
    \E ok \in BOOLEAN, chunks \in {<<>>, DocChunks("cv.pdf", 1, 1)} :
        LET c == construct(NoCollection, "u0", TRUE)
            w == add_documents(c.store, c.collection, chunks, "ok")
            a == construct(w.store, "u1", ok)
        IN  /\ store = a.store
            /\ collection = [p \in Pipes |-> IF p = Caller THEN a.collection
                                                         ELSE c.collection]
            /\ latest = IF w.wrote THEN Written(EmptyMap, chunks) ELSE EmptyMap
            /\ resetClean = {}
            /\ last = Op("init", None)
            /\ inflight = [p \in Pipes |-> Idle]
            /\ contended = {}
            /\ chunking = NoChunking
            /\ session = [page |-> "app",
                          documents_indexed |-> FALSE,
                          indexed_files |-> <<>>,
                          generated_results |-> NotStored,
                          job_details |-> NotStored,
                          runs |-> 0,
                          generations |-> 0]

\* A handler may begin: none runs, and fewer than MaxRuns have begun.
HandlerMayRun ==
    /\ session.runs < MaxRuns
    /\ ~Generating("generate_materials")
    /\ inflight[Caller].pc = "idle"

\* st.session_state after the handler of "Process and Index Documents",
\* lines 480-517; wrote: what add_documents did, which the handler does not
\* see.
process_session(s, upload, wrote) ==
    IF upload.files = <<>> \/ upload.raises \/ upload.documents = 0 THEN s
    ELSE [s EXCEPT !.documents_indexed = TRUE,
                   !.indexed_files = upload.files]

\* "Process and Index Documents", app.py:479-517.
ProcessAndIndex(p) ==
    /\ HandlerMayRun
    /\ \E upload \in Uploads, emb \in {"ok", "raise", "empty"} :
        LET calls == ~(upload.files = <<>> \/ upload.raises
                                           \/ upload.documents = 0)
            r == IF calls
                 THEN add_documents(store, collection[p], upload.all_chunks, emb)
                 ELSE [exc |-> FALSE, store |-> store, wrote |-> FALSE]
        IN  /\ store' = r.store
            /\ latest' = IF r.wrote THEN Written(latest, upload.all_chunks)
                         ELSE latest
            /\ resetClean' = IF r.wrote THEN {} ELSE resetClean
            /\ session' = [process_session(session, upload, r.wrote)
                             EXCEPT !.runs = @ + 1]
            /\ last' = [Op("process", p) EXCEPT !.chunks = upload.all_chunks,
                                                !.emb = emb, !.ok = calls,
                                                !.wrote = r.wrote]
            /\ UNCHANGED <<chunking, collection, inflight, contended>>

\* "Reset Vector Store", app.py:520-522: the handler calls
\* reset_vectorstore, which calls delete_collection (rag_pipeline.py:161-168).
ResetVectorStoreButton(p) ==
    /\ HandlerMayRun
    /\ \E fault \in BOOLEAN :
          LET d == delete_collection(store, fault)
          IN  /\ store' = d.store
              /\ latest' = IF d.exc = "" THEN EmptyMap ELSE latest
              /\ contended' = IF d.exc = "" THEN {} ELSE contended
              /\ last' = [Op("reset_button", p) EXCEPT !.fault = fault,
                              !.absent = ~store.exists]
    /\ inflight' = [inflight EXCEPT ![p].pc = "reset_setup"]
    /\ session' = [session EXCEPT !.runs = @ + 1]
    /\ UNCHANGED <<chunking, collection, resetClean>>

\* "Reset Vector Store", app.py:522-525: reset_vectorstore calls
\* setup_vectorstore (rag_pipeline.py:170) and returns; the handler clears
\* documents_indexed and indexed_files.
ResetVectorStoreButtonSetup(p) ==
    /\ inflight[p].pc = "reset_setup"
    /\ \E ok \in BOOLEAN :
          LET r == setup_vectorstore(store, collection[p], FreshUid, ok)
          IN  /\ store' = r.store
              /\ collection' = [collection EXCEPT ![p] = r.collection]
              /\ last' = [last EXCEPT !.ok = ok]
    /\ resetClean' = resetClean \cup {p}
    /\ inflight' = [inflight EXCEPT ![p].pc = "idle"]
    /\ session' = [session EXCEPT !.documents_indexed = FALSE,
                                  !.indexed_files = <<>>]
    /\ UNCHANGED <<chunking, latest, contended>>

\* The Generate Materials page stops before its form and its results unless
\* documents_indexed is set, app.py:543-546.
GenerateMaterialsPage == HandlerMayRun /\ session.documents_indexed

\* st.session_state after generate_all returned results to the handler,
\* lines 607-620: an exception is reported and nothing is stored.
store_results(s, call) ==
    IF call.out.exc # "" THEN s
    ELSE [s EXCEPT !.generated_results = call.out.value,
                   !.job_details =
                       [job_description |-> call.job_description,
                        company_name |-> CompanyName,
                        role_title |-> RoleTitle,
                        candidate_name |-> CandidateName,
                        resume_content |-> call.resume_content]]

\* "Generate All Materials" is submitted, app.py:574-594: a form without a
\* job description is turned down; else generate_all is called, with the
\* placeholder for a resume field left empty.
GenerateAllMaterials(p) ==
    /\ GenerateMaterialsPage
    /\ \E jd \in JobDescriptions, typed \in FormResumeContents :
          IF jd = ""
          THEN /\ last' = Op("generate_turned_down", p)
               /\ session' = [session EXCEPT !.runs = @ + 1]
          ELSE /\ session.generations < MaxGenerations
               /\ last' = GeneratingAll("generate_materials", p, jd,
                              IF typed = "" THEN AtsPlaceholder ELSE typed,
                              [fault |-> "none", target |-> ""])
               /\ session' = [session EXCEPT !.runs = @ + 1,
                                             !.generations = @ + 1]
    /\ UNCHANGED <<chunking, store, collection, latest, resetClean, inflight,
                   contended>>

\* The generate_all of the handler calls its next operation; once it is
\* over the handler stores the results, app.py:588-620.
GenerateAllMaterialsStep(p) ==
    /\ Generating("generate_materials") /\ last.p = p
    /\ LET reqs == searches_of(NextArtifact(last), last.job_description,
                               last.resume_content)
       IN  \E fail \in FailuresOf(reqs, AppSearchFailures),
              llm \in LlmOutcomes :
             \E founds \in FoundsFor(p, reqs, fail) :
                LET call == generate_all_step(last, fail, llm, founds)
                IN  /\ last' = call
                    /\ session' = IF Returned(call)
                                  THEN store_results(session, call)
                                  ELSE session
    /\ UNCHANGED <<chunking, store, collection, latest, resetClean, inflight,
                   contended>>

\* The results are shown, with their Regenerate buttons, app.py:623.  Each
\* Regenerate handler stores the text its generate_* operation returns; an
\* exception leaving the operation is reported and nothing is stored.
ResultsShown ==
    GenerateMaterialsPage /\ session.generated_results # NotStored

\* The history record of a Regenerate handler: the stored job details it
\* read, the searches its operation issued, what they found, the language
\* model's outcome and what the operation returned.
Regenerated(name, p, d, fail, llm, reqs, founds, r) ==
    [op |-> name, p |-> p, job_details |-> d, fail |-> fail, llm |-> llm,
     searches |-> reqs, founds |-> founds, out |-> r]

\* A Regenerate handler storing what it generated under every key.
regenerate_every_key(generated_results, key, value) ==
    [k \in DOMAIN generated_results |-> value]

\* st.session_state.generated_results[key] = value
regenerate(generated_results, key, value) ==
    [generated_results EXCEPT ![key] = value]

\* "Regenerate" of the resume bullets, app.py:704-714.
RegenBullets(p) ==
    /\ ResultsShown
    /\ \E fail \in AppSearchFailures, llm \in LlmOutcomes :
        LET d == session.job_details
            reqs == generate_resume_bullets_searches(d.job_description)
        IN  \E founds \in FoundsFor(p, reqs, fail) :
                LET new_bullets ==
                        generate_resume_bullets(founds, d.job_description,
                            d.candidate_name, PromptTable("none", ""), llm)
                IN  /\ session' =
                          IF new_bullets.exc # ""
                          THEN [session EXCEPT !.runs = @ + 1]
                          ELSE [session EXCEPT !.runs = @ + 1,
                                  !.generated_results =
                                      regenerate(@, "resume_bullets", new_bullets.value)]
                    /\ last' = Regenerated("regen_bullets", p, d, fail, llm, reqs, founds,
                                   new_bullets)
                    /\ UNCHANGED <<chunking, store, collection, latest,
                                   resetClean, inflight, contended>>

\* "Regenerate" of the cover letter, app.py:737-748.
RegenCover(p) ==
    /\ ResultsShown
    /\ \E fail \in AppSearchFailures, llm \in LlmOutcomes :
        LET d == session.job_details
            reqs == generate_cover_letter_searches(d.job_description)
        IN  \E founds \in FoundsFor(p, reqs, fail) :
                LET new_cover ==
                        generate_cover_letter(founds, d.job_description,
                            d.company_name, d.role_title,
                            PromptTable("none", ""), llm)
                IN  /\ session' =
                          IF new_cover.exc # ""
                          THEN [session EXCEPT !.runs = @ + 1]
                          ELSE [session EXCEPT !.runs = @ + 1,
                                  !.generated_results =
                                      regenerate(@, "cover_letter", new_cover.value)]
                    /\ last' = Regenerated("regen_cover", p, d, fail, llm, reqs, founds,
                                   new_cover)
                    /\ UNCHANGED <<chunking, store, collection, latest,
                                   resetClean, inflight, contended>>

\* "Regenerate" of the ATS analysis, app.py:766-776.
RegenAts(p) ==
    /\ ResultsShown
    /\ \E fail \in AppSearchFailures, llm \in LlmOutcomes :
        LET d == session.job_details
            reqs == generate_ats_analysis_searches(d.resume_content)
        IN  \E founds \in FoundsFor(p, reqs, fail) :
                LET new_ats ==
                        generate_ats_analysis(founds, d.job_description,
                            d.resume_content, PromptTable("none", ""), llm)
                IN  /\ session' =
                          IF new_ats.exc # ""
                          THEN [session EXCEPT !.runs = @ + 1]
                          ELSE [session EXCEPT !.runs = @ + 1,
                                  !.generated_results =
                                      regenerate(@, "ats_analysis", new_ats.value)]
                    /\ last' = Regenerated("regen_ats", p, d, fail, llm, reqs, founds,
                                   new_ats)
                    /\ UNCHANGED <<chunking, store, collection, latest,
                                   resetClean, inflight, contended>>

\* "Regenerate" of the LinkedIn message, app.py:796-807.
RegenLinkedin(p) ==
    /\ ResultsShown
    /\ \E fail \in AppSearchFailures, llm \in LlmOutcomes :
        LET d == session.job_details
            reqs == generate_linkedin_message_searches(d.job_description)
        IN  \E founds \in FoundsFor(p, reqs, fail) :
                LET new_linkedin ==
                        generate_linkedin_message(founds, d.job_description,
                            d.company_name, d.role_title,
                            PromptTable("none", ""), llm)
                IN  /\ session' =
                          IF new_linkedin.exc # ""
                          THEN [session EXCEPT !.runs = @ + 1]
                          ELSE [session EXCEPT !.runs = @ + 1,
                                  !.generated_results =
                                      regenerate(@, "linkedin_message", new_linkedin.value)]
                    /\ last' = Regenerated("regen_linkedin", p, d, fail, llm, reqs, founds,
                                   new_linkedin)
                    /\ UNCHANGED <<chunking, store, collection, latest,
                                   resetClean, inflight, contended>>

NextApp ==
    \/ \E p \in {Caller} :
          \/ ProcessAndIndex(p)
          \/ ResetVectorStoreButton(p)
          \/ ResetVectorStoreButtonSetup(p)
          \/ GenerateAllMaterials(p)
          \/ GenerateAllMaterialsStep(p)
          \/ RegenBullets(p)
          \/ RegenCover(p)
          \/ RegenAts(p)
          \/ RegenLinkedin(p)
    \/ \E q \in Pipes \ {Caller} :
          \/ OtherSessionIndexes(q)
          \/ OtherSessionResetDelete(q)
          \/ OtherSessionResetSetup(q)

SpecApp == InitApp /\ [][NextApp]_vars

(***************************************************************************)
(* Properties of the vector index.                                         *)
(***************************************************************************)
Count(p) == get_collection_count(store, collection[p])

StoredPassage(chunk) ==
    Passage(ChunkId(chunk), chunk.text, chunk.metadata, embed(chunk.text))

\* C1: idempotent indexing.  When add_documents(C) comes right after
\* add_documents(C), C not empty and its embedding succeeding both times,
\* get_collection_count() after the second call is what it was after the
\* first.
C1_IdempotentIndexing ==
    [][last'.op = "add" /\ last'.again
        => get_collection_count(store', collection'[last'.p]) = Count(last.p)]_vars

\* C1 happens: a list was added twice in a row to a live collection, and the
\* collection holds its passages.
C1_Witness ==
    /\ last.op = "add" /\ last.again /\ last.wrote
    /\ Count(last.p) = Len(last.chunks)
    /\ Len(last.chunks) >= 2

\* C2: upsert overwrites in full.  The collection holds exactly one passage
\* per id written since it was created, and its text, metadata and embedding
\* are those of the most recent upsert of that id.
C2_UpsertOverwritesInFull ==
    store.exists =>
        /\ \A r \in BagToSet(store.docs) : store.docs[r] = 1
        /\ \A r1, r2 \in BagToSet(store.docs) : r1.id = r2.id => r1 = r2
        /\ {r.id : r \in BagToSet(store.docs)} = DOMAIN latest
        /\ \A r \in BagToSet(store.docs) : r = StoredPassage(latest[r.id])

\* C2 happens: cv.pdf_0 was written by a first pass of two chunks and then
\* overwritten by a second pass of one chunk with other text and metadata.
C2_Witness ==
    /\ store.exists
    /\ BagIn(StoredPassage(Chunk("cv.pdf", 0, 2)), store.docs)
    /\ BagIn(StoredPassage(Chunk("cv.pdf", 1, 1)), store.docs)

\* C3: abort on embedding failure.  When the embedding call fails or returns
\* nothing for a list that is not empty, add_documents returns without
\* raising and the store is as it was.
C3_AbortOnEmbeddingFailure ==
    [][last'.op = "add" /\ last'.chunks # <<>> /\ last'.emb \in {"raise", "empty"}
        => store' = store /\ ~last'.exc /\ ~last'.wrote]_vars

\* C3 happens: the embedding failed for a batch whose first id is stored,
\* in a live collection, with another text.
C3_Witness ==
    /\ last.op = "add" /\ last.emb = "raise" /\ last.chunks # <<>>
    /\ Live(collection[last.p], store)
    /\ \E r \in BagToSet(store.docs) :
          /\ r.id = ChunkId(last.chunks[1])
          /\ r.document # last.chunks[1].text

\* What search_similar of pipeline p can return in the current state, over
\* every query, n_results and outcome of the collaborators.
SearchValues(p) ==
    {search_similar(IF fail = "embed" THEN "raise" ELSE "ok", results).value :
        <<fail, results>> \in
            UNION {{fail} \X collection_query(store, collection[p], embed(q), n,
                                              fail = "query")
                     : <<q, n, fail>> \in Queries \X (0..MaxN) \X SearchFailures}}

\* C4: reset clears state.  From the return of reset_vectorstore of pipeline
\* p to the next add_documents that writes, get_collection_count() of p is 0
\* and every search_similar of p returns [].
C4_ResetClearsState ==
    \A p \in resetClean : Count(p) = 0 /\ SearchValues(p) \subseteq {<<>>}

\* C25: reset on an absent collection is benign.  When the named collection
\* is not in the store and the store carries out the re-creation,
\* reset_vectorstore returns without raising; after it the collection
\* exists, is empty and is the one the pipeline holds; add_documents of any
\* list of chunks with distinct ids writes them, and search_similar runs its
\* query and returns the empty list.
C25_ResetOnAbsentCollection ==
    last.op = "reset" /\ last.absent /\ last.ok =>
        LET h == collection[last.p]
        IN  /\ ~last.exc
            /\ store.exists /\ store.docs = EmptyBag
            /\ Live(h, store)
            /\ get_collection_count(store, h) = 0
            /\ \A chunks \in ChunkLists \ {<<>>} :
                  LET a == add_documents(store, h, chunks, "ok")
                      ids == {ChunkId(chunks[i]) : i \in 1..Len(chunks)}
                  IN  Cardinality(ids) = Len(chunks) =>
                          /\ ~a.exc /\ a.wrote
                          /\ get_collection_count(a.store, h) = Len(chunks)
            /\ \A q \in Queries, n \in 1..MaxN :
                  \A results \in collection_query(store, h, embed(q), n, FALSE) :
                      /\ ~results.exc
                      /\ search_similar("ok", results) =
                            [exc |-> FALSE, value |-> <<>>]

\* C25 happens: reset_vectorstore returned over a store that had no
\* collection, its delete_collection raising ValueError, and created a
\* collection that is not the store's first one.
C25_Witness ==
    /\ last.op = "reset" /\ last.absent /\ last.ok /\ ~last.fault
    /\ store.exists /\ store.docs = EmptyBag
    /\ Live(collection[last.p], store)
    /\ collection[last.p] # "u0"

\* The ids of the passages stored.
StoredIds(st) == {d.id : d \in BagToSet(st.docs)}

\* C29: stored passages only grow between resets.  A step of add_documents
\* or of search_similar (alone or under _retrieve_context) removes no stored
\* id and does not lower get_collection_count(); so the passages of an
\* earlier, longer pass over a file stay when the file is indexed again.
C29_PassagesOnlyGrow ==
    [][last'.op \in {"add", "search", "retrieve"}
        => /\ StoredIds(store) \subseteq StoredIds(store')
           /\ get_collection_count(store', collection'[last'.p])
                 >= Count(last'.p)
           /\ BagCardinality(store'.docs) >= BagCardinality(store.docs)]_vars

\* C29 happens: the resume was indexed again, the new pass yielding one
\* chunk, and the passage of index 1 of the earlier pass is still stored
\* and is what a search returns first.
C29_Witness ==
    /\ last.op = "add" /\ last.wrote
    /\ last.chunks = DocChunks("cv.pdf", 1, 2)
    /\ StoredPassage(Chunk("cv.pdf", 1, 1)) \in BagToSet(store.docs)
    /\ get_collection_count(store, collection[last.p]) = 2
    /\ \E value \in SearchValues(last.p) :
          value # <<>> /\ value[1].id = ChunkId(Chunk("cv.pdf", 1, 1))
                      /\ value[1].text = ChunkText(1, 1)

\* C7: initialization is idempotent and not destructive.  A step of
\* setup_vectorstore, and the construction of a RAGPipeline over the store,
\* leave the stored passages (and so their count) as they were, and an
\* existing collection as it was.
C7_SetupKeepsData ==
    [][last'.op \in {"setup", "construct"}
        => /\ store'.docs = store.docs
           /\ store.exists => store' = store]_vars

\* C7 happens: a RAGPipeline was constructed over a store that holds two
\* passages or more, and it counts them.
C7_Witness ==
    /\ last.op = "construct" /\ last.ok
    /\ BagCardinality(store.docs) >= 2
    /\ Count(last.p) = BagCardinality(store.docs)

\* The four states of C8 in which a search finds nothing.
NeverInitialized(p) == collection[p] = None
CollectionEmpty(p) == Live(collection[p], store) /\ store.docs = EmptyBag

\* C8: search never raises.  search_similar returns a list, and the list is
\* empty when the collection was never initialized, when it is empty, when
\* the embedding call fails and when the store's query fails.
C8_SearchNeverRaises ==
    last.op = "search" =>
        /\ ~last.exc
        /\ DOMAIN last.results = 1..Len(last.results)
        /\ (\/ NeverInitialized(last.p)
            \/ CollectionEmpty(last.p)
            \/ last.emb = "raise"
            \/ last.fault) => last.results = <<>>

\* C8 happens: a search whose query failed in the store, over a live
\* collection that holds passages, asked for at least one result.
C8_Witness ==
    /\ last.op = "search" /\ last.fault /\ last.n >= 1
    /\ Live(collection[last.p], store) /\ store.docs # EmptyBag

\* C8 happens as well on a pipeline that never got a collection.
C8_WitnessNeverInitialized ==
    last.op = "search" /\ NeverInitialized(last.p) /\ last.emb = "ok" /\ ~last.fault

\* C9: search order and size.  search_similar(query, n_results) returns at
\* most n_results results, each one a passage now stored at its distance
\* from the query, no passage twice, distances not decreasing.
C9_SearchOrderAndSize ==
    last.op = "search" =>
        LET r == last.results
        IN  /\ Len(r) <= last.n
            /\ \A i \in 1..Len(r) :
                  BagIn(Passage(r[i].id, r[i].text, r[i].metadata,
                                embed(r[i].text)), store.docs)
                  /\ r[i].distance = Distance(embed(r[i].text), embed(last.query))
            /\ \A i, j \in 1..Len(r) : i < j =>
                  r[i].id # r[j].id /\ r[i].distance <= r[j].distance

\* C9 happens: a search returned n_results = 2 of three stored passages, the
\* second farther than the first.
C9_Witness ==
    /\ last.op = "search" /\ last.n = 2 /\ Len(last.results) = 2
    /\ BagCardinality(store.docs) = 3
    /\ last.results[1].distance < last.results[2].distance

\* C10: retriever fallback.  _retrieve_context never raises and never
\* returns the empty string, whatever was indexed and asked; when
\* search_similar found nothing it returns exactly the sentinel.
C10_RetrieverFallback ==
    last.op = "retrieve" =>
        /\ ~last.exc
        /\ last.context # ""
        /\ last.results = <<>> =>
              last.context = "No relevant background information available."

\* The part of C10 about a search that found nothing: _retrieve_context
\* raises nothing and returns exactly the sentinel.
SentinelOnNoResults ==
    last.op = "retrieve" =>
        /\ ~last.exc
        /\ last.results = <<>> =>
              last.context = "No relevant background information available."

\* The empty string is returned only when the search found one passage and
\* its text is empty.
EmptyContextOnlyFromEmptyText ==
    last.op = "retrieve" /\ last.context = "" =>
        /\ Len(last.results) = 1
        /\ last.results[1].text = ""

\* The texts of results i..Len(results), a blank line after each but the last.
RECURSIVE TextsFrom(_, _)
TextsFrom(results, i) ==
    IF i = Len(results) THEN results[i].text
    ELSE results[i].text \o "\n\n" \o TextsFrom(results, i + 1)

\* C11: retriever composition.  When the search found r1..rk, k >= 1,
\* _retrieve_context returns text(r1), blank line, text(r2), ..., text(rk):
\* every result once, in the order the search returned them (ascending
\* distance), and nothing else.
C11_RetrieverComposition ==
    last.op = "retrieve" /\ last.results # <<>> =>
        /\ ~last.exc
        /\ last.context = TextsFrom(last.results, 1)
        /\ \A i \in 1..(Len(last.results) - 1) :
              last.results[i].distance <= last.results[i + 1].distance

\* C11 happens: a retrieval that found two passages with different texts.
C11_Witness ==
    /\ last.op = "retrieve" /\ Len(last.results) = 2
    /\ last.results[1].text # last.results[2].text
    /\ last.context = last.results[1].text \o "\n\n" \o last.results[2].text

(***************************************************************************)
(* Properties of the generator.                                            *)
(***************************************************************************)
\* The text an operation returns for an exception it caught.
IsErrorText(v) == Len(v) >= 7 /\ SubSeq(v, 1, 7) = "Error: "

\* C12: generate_all never raises.  Whatever fails in the searches, the
\* template rendering and the completions, generate_all returns a mapping
\* with exactly the keys resume_bullets, cover_letter, ats_analysis and
\* linkedin_message; each value is the completion's output for that
\* artifact, or an error text when the artifact failed.
C12_GenerateAllNeverRaises ==
    last.op = "generate_all" /\ Returned(last) =>
        /\ last.out.exc = ""
        /\ DOMAIN last.out.value =
              {"resume_bullets", "cover_letter", "ats_analysis",
               "linkedin_message"}
        /\ \A a \in DOMAIN last.out.value :
              LET v == last.out.value[a]
                  part == last.out.parts[a]
              IN  IF part.failed = ""
                  THEN part.invoked = 1 /\ v = Completion(part.prompt)
                  ELSE IsErrorText(v)

\* C12 happens: a generate_all call that returned, in which the first
\* search failed, the second artifact's template did not render, the third
\* one's completion raised and another session reset the store before the
\* fourth one's search.
C12_Witness ==
    /\ last.op = "generate_all" /\ Returned(last)
    /\ last.resume_content = ""
    /\ last.fail.resume_bullets = "query"
    /\ last.template = [fault |-> "missing", target |-> "cover_letter"]
    /\ last.llm.ats_analysis = "raise"
    /\ last.founds.ats_analysis[1].value # <<>>
    /\ last.fail.linkedin_message = "none"
    /\ last.founds.linkedin_message[1].value = <<>>
    /\ last.out.exc = ""
    /\ IsErrorText(last.out.value.cover_letter)
    /\ IsErrorText(last.out.value.ats_analysis)

\* The artifacts for which the completion raises in the last generate_all.
LlmFailed == {a \in DOMAIN last.llm : last.llm[a] = "raise"}

\* C13: isolation of generation failures.  When the completion raises for
\* exactly one artifact of a generate_all call (and the templates render),
\* that artifact's result is an error text and the three others are the
\* completion's outputs for their prompts, wherever the failing one stands.
C13_FailureIsolation ==
    last.op = "generate_all" /\ Returned(last)
        /\ last.template.fault = "none"
        /\ Cardinality(LlmFailed) = 1 =>
            /\ last.out.exc = ""
            /\ \A a \in DOMAIN last.llm :
                  IF a \in LlmFailed
                  THEN last.out.value[a] = "Error: " \o LlmError
                  ELSE /\ last.out.parts[a].invoked = 1
                       /\ last.out.value[a] = Completion(last.out.parts[a].prompt)
                       /\ ~IsErrorText(last.out.value[a])

\* C13 happens: the completion raised for the third artifact only.
C13_Witness ==
    /\ last.op = "generate_all" /\ Returned(last)
    /\ last.template.fault = "none"
    /\ LlmFailed = {"ats_analysis"}
    /\ last.out.value.ats_analysis = "Error: Connection error."
    /\ last.out.value.linkedin_message
          = Completion(last.out.parts.linkedin_message.prompt)

\* C14: template-rendering failures are not swallowed.  When get_prompt
\* raises inside one of the four generate_* operations (unknown template
\* name, missing field), the exception leaves the operation instead of
\* being returned as the artifact's text.
C14_TemplateFailurePropagates ==
    last.op \in DOMAIN prompts /\ last.out.failed = "template" =>
        /\ last.out.exc = "ValueError"
        /\ ~IsErrorText(last.out.value)

\* A resume text that is neither empty, nor blank, nor the placeholder.
RealResume(r) ==
    /\ r # ""
    /\ r # "Resume content not provided for ATS analysis."
    /\ \E i \in 1..Len(r) : SubSeq(r, i, i) \notin Whitespace

\* The ATS prompt over the caller's resume text.
AtsPromptOver(jd, r) ==
    get_prompt(prompts, "ats_analysis",
               [job_description |-> jd, resume_content |-> r]).value

\* C15 as stated: generate_ats_analysis issues exactly one retrieval per
\* call; with real resume text its query is that text and its limit 5, in
\* the fallback its query is the fixed string and its limit 10.
C15_AtsRetrievalPolicy ==
    last.op = "ats_analysis" =>
        /\ Len(last.searches) = 1
        /\ RealResume(last.resume_content) =>
              last.searches[1] = [query |-> last.resume_content, n |-> 5]
        /\ last.resume_content
              \in {"", "Resume content not provided for ATS analysis."} =>
              last.searches[1]
                 = [query |-> "resume work experience projects skills education background",
                    n |-> 10]

\* C15 amended: generate_ats_analysis issues at most one retrieval per
\* call; with real resume text it issues none and renders that text into
\* the prompt; in the fallback (no text, whitespace only, the placeholder)
\* it issues exactly one, whose query is the fixed string and whose limit
\* is 10.
C15_AtsRetrievalAmended ==
    last.op = "ats_analysis" =>
        /\ Len(last.searches) <= 1
        /\ RealResume(last.resume_content) =>
              /\ last.searches = <<>>
              /\ last.template = "none" =>
                    last.out.prompt
                       = AtsPromptOver(last.job_description, last.resume_content)
        /\ ~RealResume(last.resume_content) =>
              last.searches
                 = <<[query |-> "resume work experience projects skills education background",
                      n |-> 10]>>

\* C15 happens: the fallback retrieved the indexed resume for the prompt.
C15_Witness ==
    /\ last.op = "ats_analysis" /\ last.resume_content = AtsPlaceholder
    /\ last.searches = <<[query |-> AtsQuery, n |-> 10]>>
    /\ Len(last.founds[1].value) = 2
    /\ last.out.failed = ""

\* The ATS analysis fell back to the synthetic query.
FellBack == last.searches # <<>> /\ last.searches[1].query = AtsQuery

\* C16 as stated: generate_ats_analysis falls back if and only if
\* resume_content is the empty string or exactly the placeholder; for any
\* other resume_content, whitespace-only text included, the caller's text
\* is used.
C16_AtsFallbackTrigger ==
    last.op = "ats_analysis" =>
        /\ FellBack <=>
              last.resume_content
                 \in {"", "Resume content not provided for ATS analysis."}
        /\ ~FellBack /\ last.template = "none" =>
              last.out.prompt
                 = AtsPromptOver(last.job_description, last.resume_content)

\* C16 amended: generate_ats_analysis falls back if and only if
\* resume_content is empty, consists of whitespace only, or is exactly the
\* placeholder; for any other resume_content (text that merely contains the
\* placeholder included) the caller's text is used.
C16_AtsFallbackAmended ==
    last.op = "ats_analysis" =>
        /\ FellBack <=> ~RealResume(last.resume_content)
        /\ ~FellBack /\ last.template = "none" =>
              last.out.prompt
                 = AtsPromptOver(last.job_description, last.resume_content)

\* C16 happens: a whitespace-only resume text made the analysis fall back.
C16_Witness ==
    /\ last.op = "ats_analysis" /\ last.resume_content = " \n\t"
    /\ FellBack
    /\ last.out.failed = ""

\* C17: LinkedIn achievement policy.  generate_linkedin_message searches
\* with the job description and limit 1; the achievement rendered into the
\* prompt is the text of the one result, the nearest passage, when there
\* is one, and "relevant experience in the field" when the search returned
\* nothing.
C17_LinkedinAchievement ==
    last.op = "linkedin_message" =>
        /\ last.searches = <<[query |-> last.job_description, n |-> 1]>>
        /\ Len(last.founds[1].value) <= 1
        /\ \A i \in 1..Len(last.founds[1].value) :
              \A d \in BagToSet(store.docs) :
                 last.founds[1].value[i].distance
                    <= Distance(d.embedding, embed(last.job_description))
        /\ last.template = "none" =>
              last.out.prompt =
                 get_prompt(prompts, "linkedin_message",
                    [job_description |-> last.job_description,
                     company_name |-> CompanyName,
                     role_title |-> RoleTitle,
                     achievement |->
                        IF last.founds[1].value # <<>>
                        THEN last.founds[1].value[1].text
                        ELSE "relevant experience in the field"]).value

\* C17 happens: a search that failed and was swallowed; the prompt carries
\* the fixed achievement.
C17_Witness ==
    /\ last.op = "linkedin_message" /\ last.fail = "embed"
    /\ BagCardinality(store.docs) = 2
    /\ last.founds[1].value = <<>>
    /\ last.out.failed = ""

\* C17 happens as well with a result: the nearer of two passages.
C17_WitnessTopResult ==
    /\ last.op = "linkedin_message" /\ last.fail = "none"
    /\ BagCardinality(store.docs) = 2
    /\ Len(last.founds[1].value) = 1
    /\ last.out.failed = ""

\* C18: resume bullets and cover letter.  Each retrieves its context with
\* the job description and limit 5, invokes the completion once with the
\* prompt rendered over that context, and returns the completion's text
\* unchanged when it succeeds.
C18_BulletsAndCoverLetter ==
    last.op \in {"resume_bullets", "cover_letter"} =>
        /\ last.searches = <<[query |-> last.job_description, n |-> 5]>>
        /\ last.template = "none" =>
              /\ last.out.invoked = 1
              /\ last.out.prompt =
                    get_prompt(prompts, last.op,
                       IF last.op = "resume_bullets"
                       THEN [job_description |-> last.job_description,
                             context |-> retrieve_context(last.founds[1]).value,
                             name |-> CandidateName]
                       ELSE [job_description |-> last.job_description,
                             company_name |-> CompanyName,
                             role_title |-> RoleTitle,
                             context |-> retrieve_context(last.founds[1]).value]).value
              /\ last.llm = "ok" =>
                    /\ last.out.exc = ""
                    /\ last.out.value = Completion(last.out.prompt)

\* C18 happens: a cover letter over a context of two passages.
C18_Witness ==
    /\ last.op = "cover_letter" /\ last.template = "none" /\ last.llm = "ok"
    /\ Len(last.founds[1].value) = 2
    /\ last.out.value = Completion(last.out.prompt)

(***************************************************************************)
(* Properties of the chunker.                                              *)
(***************************************************************************)
\* C19: chunk index contiguity.  For a document with content, the k chunks
\* create_document_chunks returns carry chunk_index 0, 1, ..., k-1 in the
\* order they are emitted; chunk i holds the i-th segment chunk_text cuts
\* from the cleaned content; all carry the document's filename, file_type,
\* the one date_processed and the word count of the whole document.
C19_ChunkIndexContiguity ==
    chunking.pc = "done" /\ chunking.builds
        /\ doc_get(chunking.doc, "content", "") # "" =>
        LET r == chunking.result
            segments == chunk_text(clean_text(chunking.doc.content), 500, 50)
        IN  /\ Len(r) = Len(segments)
            /\ \A i \in 1..Len(r) :
                  /\ r[i].metadata.chunk_index = i - 1
                  /\ r[i].text = segments[i]
                  /\ r[i].metadata.filename = chunking.doc.filename
                  /\ r[i].metadata.file_type = chunking.doc.file_type
                  /\ r[i].metadata.date_processed = Now
                  /\ r[i].metadata.word_count = WordCount(chunking.doc.content)

\* C19 happens: a document cut into three chunks.
C19_Witness ==
    /\ chunking.pc = "done" /\ chunking.builds
    /\ Len(chunking.result) = 3
    /\ chunking.result[3].metadata.chunk_index = 2
    /\ chunking.result[1].text # chunking.result[2].text

\* C20: chunking size bound.  With chunk_size 500 and overlap 50, a segment
\* chunk_text emits, unless it is one sentence longer than chunk_size, is
\* no longer than chunk_size plus the length of one sentence: the sentence
\* whose overflow check closed it, the one whose overflow check opened it,
\* or the longest of its own, whichever is longest.
C20_ChunkSizeBound ==
    chunking.pc # "none" /\ chunking.chunk_size = 500 /\ chunking.overlap = 50 =>
        \A k \in 1..Len(chunking.emitted) :
            LET e == chunking.emitted[k]
                sentence == CHOOSE n \in {e.longest, e.opened_by, e.closed_by} :
                                n >= e.longest /\ n >= e.opened_by
                                               /\ n >= e.closed_by
            IN  ~(e.sentences = 1 /\ e.length > 500) =>
                    e.length <= 500 + sentence

\* C21: overlap non-emptiness.  Whenever chunk_text, called with an overlap
\* above 0 and below chunk_size, emits at least two segments, each segment
\* but the last is followed by one that begins with
\* the last sentence or sentences of it: a carried-over prefix that is not
\* empty and no longer than overlap.
C21_OverlapNonEmpty ==
    /\ chunking.pc \in {"enumerate", "done"}
    /\ Len(chunking.emitted) >= 2
    /\ 0 < chunking.overlap /\ chunking.overlap < chunking.chunk_size
    =>  \A n \in 1..(Len(chunking.emitted) - 1) :
            LET closed == chunking.emitted[n].chunk
                next == Join(chunking.emitted[n + 1].chunk, " ")
            IN  \E k \in 1..Len(closed) :
                    LET carried == Join(SubSeq(closed, Len(closed) - k + 1,
                                               Len(closed)), " ")
                    IN  /\ carried # ""
                        /\ Len(carried) <= chunking.overlap
                        /\ Len(carried) <= Len(next)
                        /\ SubSeq(next, 1, Len(carried)) = carried

\* C22, as claimed: every sentence longer than chunk_size is a segment of
\* its own, with no overlap carried over before it and no sentence after.
C22_OversizedStandsAlone ==
    chunking.pc \in {"enumerate", "done"} =>
        \A j \in 1..Len(chunking.sentences) :
            Len(chunking.sentences[j]) > chunking.chunk_size =>
                \E k \in 1..Len(chunking.emitted) :
                    /\ chunking.emitted[k].upto = j
                    /\ chunking.emitted[k].chunk = <<chunking.sentences[j]>>

\* C22, amended: oversized sentences are never split.  Every sentence
\* longer than chunk_size is, whole, the last sentence of a segment that
\* holds before it nothing but the overlap carried over from the segment
\* closed before (no sentence when none fits in the overlap, or when the
\* sentence is the first of the text), and no sentence after it.
C22_OversizedNeverSplit ==
    chunking.pc \in {"enumerate", "done"} =>
        \A j \in 1..Len(chunking.sentences) :
            Len(chunking.sentences[j]) > chunking.chunk_size =>
                \E k \in 1..Len(chunking.emitted) :
                    LET e == chunking.emitted[k]
                    IN  /\ e.upto = j
                        /\ e.chunk = e.seed \o <<chunking.sentences[j]>>
                        /\ chunking.chunks[k] = Join(e.chunk, " ")
                        /\ k > 1 =>
                              /\ chunking.emitted[k - 1].upto = j - 1
                              /\ e.seed # <<>> => e.seed_length < chunking.overlap
                              /\ \E n \in 0..Len(chunking.emitted[k - 1].chunk) :
                                    LET closed == chunking.emitted[k - 1].chunk
                                    IN  e.seed = SubSeq(closed, Len(closed) - n + 1,
                                                        Len(closed))
                        /\ k = 1 => e.seed = <<>>

\* C22 happens: an oversized sentence was emitted after a carried-over
\* sentence, and another sentence followed it in the text.
C22_Witness ==
    /\ chunking.pc = "done"
    /\ \E k \in 1..Len(chunking.emitted) :
          LET e == chunking.emitted[k]
          IN  /\ e.seed # <<>>
              /\ Len(e.chunk) = Len(e.seed) + 1
              /\ Len(e.chunk[Len(e.chunk)]) > chunking.chunk_size
              /\ e.upto < Len(chunking.sentences)

\* C23: overlap precondition handling.  chunk_text called with an overlap of
\* chunk_size or more returns the segments it returns for an overlap of
\* chunk_size - 1.
C23_OverlapIsCapped ==
    /\ chunking.pc = "done" /\ ~chunking.builds
    /\ chunking.chunk_size > 0
    /\ chunking.overlap >= chunking.chunk_size
    =>  chunking.chunks = chunk_text(chunking.doc.content, chunking.chunk_size,
                                     chunking.chunk_size - 1)

\* C24: empty input safety.  clean_text("") is the empty string;
\* chunk_text("", s, o) returns the empty list whatever s and o;
\* create_document_chunks returns the empty list for a document whose
\* content is empty, missing, or cleans to the empty string; each of these
\* calls returns, without entering the loop over the sentences.
C24_EmptyInputSafety ==
    LET raw_content == doc_get(chunking.doc, "content", "")
        empty == IF chunking.builds THEN clean_text(raw_content) = ""
                 ELSE raw_content = ""
    IN  /\ clean_text("") = ""
        /\ chunking.pc \notin {"none", "start"} /\ empty =>
              /\ chunking.pc \in {"enumerate", "done"}
              /\ chunking.chunks = <<>>
              /\ chunking.emitted = <<>>
              /\ chunking.result = <<>>
              /\ chunk_text("", chunking.chunk_size, chunking.overlap) = <<>>
              /\ chunking.builds => create_document_chunks(chunking.doc, Now) = <<>>

\* C24 happens: create_document_chunks returned for a document whose
\* content is not empty and cleans to the empty string.
C24_Witness ==
    /\ chunking.pc = "done" /\ chunking.builds
    /\ doc_get(chunking.doc, "content", "") # ""
    /\ clean_text(chunking.doc.content) = ""
    /\ chunking.result = <<>>

\* The sum of the lengths of the sentences of a list.
RECURSIVE SentenceLengthSum(_)
SentenceLengthSum(sentences) ==
    IF sentences = <<>> THEN 0
    ELSE Len(Head(sentences)) + SentenceLengthSum(Tail(sentences))

\* The last n sentences of a chunk.
Suffix(chunk, n) == SubSeq(chunk, Len(chunk) - n + 1, Len(chunk))

\* C27: overlap carry-over rule.  Each time chunk_text closes a segment, the
\* next segment starts with the longest suffix of the closed segment's
\* sentences whose lengths add up to less than overlap (no sentence when the
\* last one alone is overlap long or longer), and the running total of the
\* next segment starts at the sum of those lengths.
C27_OverlapCarryOver ==
    chunking.pc # "none" =>
        \A k \in 2..Len(chunking.emitted) :
            LET closed == chunking.emitted[k - 1].chunk
                e == chunking.emitted[k]
                fits == {n \in 0..Len(closed) :
                            n > 0 => SentenceLengthSum(Suffix(closed, n))
                                        < chunking.overlap}
                longest == CHOOSE n \in fits : \A m \in fits : m <= n
            IN  /\ e.seed = Suffix(closed, longest)
                /\ e.seed_length = SentenceLengthSum(e.seed)
                /\ SubSeq(e.chunk, 1, Len(e.seed)) = e.seed
                /\ Len(closed[Len(closed)]) >= chunking.overlap => e.seed = <<>>
                /\ e.counted = e.seed_length
                      + SentenceLengthSum(SubSeq(e.chunk, Len(e.seed) + 1,
                                                 Len(e.chunk)))

\* C27 happens: a segment was closed and two of its sentences, not all of
\* them, were carried over.
C27_Witness ==
    /\ chunking.pc # "none"
    /\ \E k \in 2..Len(chunking.emitted) :
          /\ Len(chunking.emitted[k].seed) = 2
          /\ Len(chunking.emitted[k - 1].chunk) > 2

\* The sentences of the first k segments emitted, each without the
\* sentences carried over into it, one after the other.
RECURSIVE Remainders(_, _)
Remainders(emitted, k) ==
    IF k = 0 THEN <<>>
    ELSE Remainders(emitted, k - 1)
            \o SubSeq(emitted[k].chunk, Len(emitted[k].seed) + 1,
                      Len(emitted[k].chunk))

\* C28: chunking completeness.  For a text that is not empty, every sentence
\* of the text is, whole, a sentence of a segment chunk_text emits; no
\* segment is empty; and the segments without their carried-over sentences,
\* in the order emitted, are the sentences of the text.
C28_ChunkingCompleteness ==
    chunking.pc \in {"enumerate", "done"} /\ chunking.text # "" =>
        /\ \A j \in 1..Len(chunking.sentences) :
              \E k \in 1..Len(chunking.emitted) :
                  \E n \in 1..Len(chunking.emitted[k].chunk) :
                      chunking.emitted[k].chunk[n] = chunking.sentences[j]
        /\ \A k \in 1..Len(chunking.chunks) : chunking.chunks[k] # ""
        /\ Len(chunking.chunks) = Len(chunking.emitted)
        /\ \A k \in 1..Len(chunking.chunks) :
              chunking.chunks[k] = Join(chunking.emitted[k].chunk, " ")
        /\ Remainders(chunking.emitted, Len(chunking.emitted)) = chunking.sentences

(***************************************************************************)
(* Properties of the Streamlit session.                                    *)
(***************************************************************************)
\* The operation raised.
IsException(r) == r.exc # ""

\* The key of generated_results each Regenerate handler is for.
RegenKey ==
    [regen_bullets |-> "resume_bullets", regen_cover |-> "cover_letter",
     regen_ats |-> "ats_analysis", regen_linkedin |-> "linkedin_message"]

\* What the generate_* operation of a key returns for the stored job
\* details d.
RegeneratedValue(key, founds, d, llm) ==
    CASE key = "resume_bullets" ->
            generate_resume_bullets(founds, d.job_description, d.candidate_name,
                                    PromptTable("none", ""), llm)
      [] key = "cover_letter" ->
            generate_cover_letter(founds, d.job_description, d.company_name,
                                  d.role_title, PromptTable("none", ""), llm)
      [] key = "ats_analysis" ->
            generate_ats_analysis(founds, d.job_description, d.resume_content,
                                  PromptTable("none", ""), llm)
      [] OTHER ->
            generate_linkedin_message(founds, d.job_description, d.company_name,
                                      d.role_title, PromptTable("none", ""), llm)

\* The searches the generate_* operation of a key issues.
RegeneratedSearches(key, d) ==
    CASE key = "resume_bullets" ->
            generate_resume_bullets_searches(d.job_description)
      [] key = "cover_letter" ->
            generate_cover_letter_searches(d.job_description)
      [] key = "ats_analysis" ->
            generate_ats_analysis_searches(d.resume_content)
      [] OTHER -> generate_linkedin_message_searches(d.job_description)

\* C26: independent regeneration.  A Regenerate handler issues the searches
\* of its artifact's generate_* operation and no other, stores what that
\* operation returns for the stored job details under its artifact's key,
\* and leaves the three other stored artifacts, the stored job details, the
\* indexed flag and the store as they were.
C26_IndependentRegeneration ==
    [][session'.runs # session.runs /\ last'.op \in DOMAIN RegenKey =>
        LET key == RegenKey[last'.op]
            before == session.generated_results
            after == session'.generated_results
        IN  /\ DOMAIN after = DOMAIN before
            /\ \A k \in DOMAIN before \ {key} : after[k] = before[k]
            /\ ~IsException(last'.out) /\ after[key] = last'.out.value
            /\ last'.out = RegeneratedValue(key, last'.founds,
                                            session.job_details, last'.llm)
            /\ last'.searches = RegeneratedSearches(key, session.job_details)
            /\ session'.job_details = session.job_details
            /\ session'.documents_indexed = session.documents_indexed
            /\ session'.indexed_files = session.indexed_files
            /\ store' = store /\ collection' = collection]_vars

\* C26 happens: the cover letter was regenerated and the language model
\* failed for it, while the resume bullets still carry the failure of the
\* generate_all that stored them and the two others are completions.
C26_Witness ==
    /\ last.op = "regen_cover"
    /\ session.generated_results.cover_letter = last.out.value
    /\ IsErrorText(session.generated_results.cover_letter)
    /\ IsErrorText(session.generated_results.resume_bullets)
    /\ ~IsErrorText(session.generated_results.ats_analysis)
    /\ ~IsErrorText(session.generated_results.linkedin_message)

\* C30: the indexed flag matches the index.  In every state of the session,
\* documents_indexed is set only if the session's collection holds a
\* passage.
C30_IndexedFlagMatchesIndex ==
    session.page = "app" /\ session.documents_indexed =>
        get_collection_count(store, collection[Caller]) >= 1

(***************************************************************************)
(* Properties of the sessions running at once.                             *)
(***************************************************************************)
AllIdle == \A p \in Pipes : inflight[p].pc = "idle"

\* A session is between the delete_collection and the setup_vectorstore of
\* its reset_vectorstore.
ResetHalfDone == \E p \in Pipes : inflight[p].pc = "reset_setup"

\* The step is the store call of a search or of an add_documents of q, or
\* the return of its upsert.
StoreCall(q) ==
    /\ inflight[q].pc \in {"add_upsert", "add_upserting", "search_query"}
    /\ inflight[q].pc = "add_upsert" => inflight[q].emb = "ok"
    /\ inflight'[q].pc # inflight[q].pc

\* C5: reset is exclusive.  No search and no upsert reaches the store while
\* a reset_vectorstore is between its delete and its recreate.
C5_ResetIsExclusive ==
    [][ResetHalfDone => \A q \in Pipes : ~StoreCall(q)]_vars

\* C5, its particular case: no upsert is applied to a deleted collection
\* (and so lost) while a reset is between its delete and its recreate.
C5_NoUpsertOnDeletedCollection ==
    [][ResetHalfDone =>
          \A q \in Pipes :
              (StoreCall(q) /\ inflight[q].pc = "add_upserting")
                  => Live(collection[q], store)]_vars

\* C6: upsert is atomic per call.  When the calls are over, an id that two
\* overlapping add_documents calls wrote is stored once, and its text, its
\* metadata and its embedding are those of the call whose upsert came last.
C6_UpsertAtomicPerCall ==
    AllIdle =>
        \A c \in contended :
            /\ c.id \in DOMAIN latest
            /\ \A r \in BagToSet(store.docs) :
                  r.id = c.id => r = StoredPassage(latest[c.id]) /\ store.docs[r] = 1
            /\ \E r \in BagToSet(store.docs) : r.id = c.id

\* The same of the ids whose collection.upsert calls were never in progress
\* together: the calls overlapped, their store calls came one after the
\* other.
UpsertLastWinsUnlessRaced ==
    AllIdle =>
        \A c \in contended :
            (\A d \in contended : d.id = c.id => ~d.raced) =>
                /\ c.id \in DOMAIN latest
                /\ \A r \in BagToSet(store.docs) :
                      r.id = c.id => r = StoredPassage(latest[c.id])
                                        /\ store.docs[r] = 1
                /\ \E r \in BagToSet(store.docs) : r.id = c.id

\* Two overlapping calls wrote cv.pdf_0 with different text and metadata,
\* their store calls one after the other, and both are over.
OverlappingCallsWrote ==
    /\ AllIdle
    /\ \E c \in contended :
          /\ \A d \in contended : d.id = c.id => ~d.raced
          /\ latest[c.id].text # c.first.text
          /\ latest[c.id].metadata # c.first.metadata
          /\ BagIn(StoredPassage(latest[c.id]), store.docs)

\* Two collection.upsert calls in progress together wrote cv.pdf_0, and the
\* passage stored has the text of the one and the metadata of the other.
RacedCallsMixed ==
    /\ AllIdle
    /\ \E c \in contended, r \in BagToSet(store.docs) :
          /\ c.raced /\ r.id = c.id
          /\ r.document = c.first.text
          /\ r.metadata = latest[c.id].metadata
          /\ c.first.metadata # latest[c.id].metadata

====
